---- MODULE Spec2Model ----
(***************************************************************************)
(* Model of the Kconfig language server (srv/kconfiglsp.py, srv/lsp.py):   *)
(* the session registry and router of KconfigServer, the lifecycle of a    *)
(* KconfigContext (parse / invalidate / load_config / refresh_ctx), the    *)
(* node identity tokens (_node_id / find_node) and the lint pipeline.      *)
(*                                                                         *)
(* The evaluation engine (kconfiglib) is an external collaborator: what it *)
(* returns (the tree it builds, whether it raises, the values it computes) *)
(* is drawn nondeterministically from small sets.                          *)
(***************************************************************************)
EXTENDS Integers, Sequences, FiniteSets, TLC

VARIABLES heap, ctx, main_uri, last_ctx, docs, disk, pc, last,
          lintSyms, lintFiles, lintDiags, lintRun,
          doc, docOp,
          environ, envOp,
          rangeOp,
          store, storeOp,
          running, _req, rpcPc, active, wire, readLog

vars == <<heap, ctx, main_uri, last_ctx, docs, disk, pc, last,
          lintSyms, lintFiles, lintDiags, lintRun,
          doc, docOp,
          environ, envOp,
          rangeOp,
          store, storeOp,
          running, _req, rpcPc, active, wire, readLog>>

srvVars == <<heap, ctx, main_uri, last_ctx, docs, disk, pc, last>>

lintVars == <<lintSyms, lintFiles, lintDiags, lintRun>>

docVars == <<doc, docOp>>

envVars == <<environ, envOp>>

\* the variables of the parts that are modelled on their own
storeVars == <<store, storeOp>>

rpcVars == <<running, _req, rpcPc, active, wire, readLog>>

sideVars == <<envVars, rangeOp, storeVars, rpcVars>>

----------------------------------------------------------------------------
(* Bounds of the model *)

\* parse() is not called on a session whose version has reached MaxVersion
MaxVersion == 2

\* number of KconfigContext objects alive at once (registered or last_ctx)
MaxObjs == 2

ObjIds == 1..MaxObjs

\* session URIs a client registers builds under
CtxUris == {"A", "B"}

\* override files, and a resource no session lists
ConfUris == {"f1", "f2"}

BoardUri == "b1"

OtherUri == "x"

Resources == ConfUris \cup {BoardUri, OtherUri}

\* the conf lists a client passes to kconfig/addBuild
ConfLists == {<<"f1">>, <<"f1", "f2">>}

NoUri == ""

NoObj == 0

----------------------------------------------------------------------------
(* General helpers *)

SeqRange(s) == {s[i] : i \in 1..Len(s)}

\* index of the first element of s satisfying P, 0 if none
RECURSIVE FirstIdx(_, _, _)
FirstIdx(s, P(_), i) ==
    IF i > Len(s) THEN 0
    ELSE IF P(s[i]) THEN i
    ELSE FirstIdx(s, P, i + 1)

RemoveAt(s, i) == [j \in 1..(Len(s) - 1) |-> IF j < i THEN s[j] ELSE s[j + 1]]

----------------------------------------------------------------------------
(* The evaluation engine's results: the trees it can build *)

\* tree 0: nothing built (never parsed, or the evaluation raised)
\* tree 1: one menu, FOO defined at two sites, one choice, one comment
\* tree 2: two menus, FOO and BAR with one site each
\* tree 3: a root file that defines no symbol (one comment only)
TreeIds == {1, 2, 3}

TreeMenus(t) == CASE t = 1 -> 1 [] t = 2 -> 2 [] OTHER -> 0

TreeChoices(t) == CASE t = 1 -> 1 [] OTHER -> 0

TreeComments(t) == CASE t = 1 -> 1 [] t = 3 -> 1 [] OTHER -> 0

SymNames == {"FOO", "BAR"}

\* number of definition sites (MenuNodes) of a symbol; 0: not in kconfig.syms
TreeSymNodes(t, name) ==
    CASE t = 1 /\ name = "FOO" -> 2
      [] t = 2 /\ name = "FOO" -> 1
      [] t = 2 /\ name = "BAR" -> 1
      [] OTHER -> 0

\* kconfiglib's unique_defined_syms is non-empty
TreeHasSyms(t) == \E n \in SymNames : TreeSymNodes(t, n) > 0

Node(type, name, idx) == [type |-> type, name |-> name, idx |-> idx]

NoNode == Node("", "", 0)

\* the menu nodes of a tree; idx is the position in the engine's list
TreeNodes(t) ==
    IF t = 0 THEN {}
    ELSE {Node("MAINMENU", "", 0)}
         \cup {Node("MENU", "", i) : i \in 0..(TreeMenus(t) - 1)}
         \cup {Node("CHOICE", "", i) : i \in 0..(TreeChoices(t) - 1)}
         \cup {Node("COMMENT", "", i) : i \in 0..(TreeComments(t) - 1)}
         \cup UNION {{Node("SYM", n, i) : i \in 0..(TreeSymNodes(t, n) - 1)} : n \in SymNames}

----------------------------------------------------------------------------
(* Kconfig: the wrapper around the engine's object *)

\* st: "none" (self._kconfig is None), "ok" (_init returned), "failed" (_init raised)
\* gen identifies the object: parse() builds a new one every time
NoKconfig == [st |-> "none", valid |-> FALSE, tree |-> 0, gen |-> 0, diags |-> <<>>]

\* Kconfig.parse, were valid set whenever _init returns
KconfigParse_AlwaysValid(gen, oc) ==
    IF oc.res = "ok"
    THEN [st |-> "ok", valid |-> TRUE, tree |-> oc.tree, gen |-> gen, diags |-> <<>>]
    ELSE [st |-> "failed", valid |-> FALSE, tree |-> 0, gen |-> gen, diags |-> <<>>]

\* Kconfig.parse, were the object valid although _init raised
KconfigParse_FailedValid(gen, oc) ==
    IF oc.res = "ok"
    THEN [st |-> "ok", valid |-> TreeHasSyms(oc.tree), tree |-> oc.tree,
          gen |-> gen, diags |-> <<>>]
    ELSE [st |-> "failed", valid |-> TRUE, tree |-> 0, gen |-> gen, diags |-> <<>>]

\* Kconfig.parse: valid = False; _init(); valid = True if unique_defined_syms
\* oc is what the engine does: [res, tree]
KconfigParse(gen, oc) ==
    IF oc.res = "ok"
    THEN [st |-> "ok", valid |-> TreeHasSyms(oc.tree), tree |-> oc.tree,
          gen |-> gen, diags |-> <<>>]
    ELSE [st |-> "failed", valid |-> FALSE, tree |-> 0, gen |-> gen, diags |-> <<>>]

\* what the engine can do in _init: build a tree, raise KconfigError with or
\* without a known location, or raise something else
ParseOutcomes ==
    {[res |-> "ok", tree |-> t] : t \in TreeIds}
    \cup {[res |-> r, tree |-> 0] : r \in {"kerr_loc", "kerr_noloc", "exc"}}

----------------------------------------------------------------------------
(* KconfigContext *)

\* the env a client gives addBuild: "full" holds ZEPHYR_BASE (and BOARD,
\* ARCH, BOARD_DIR), "no_base" holds all of these but ZEPHYR_BASE
Envs == {"full", "no_base"}

\* KconfigContext.__init__
\* (prev and inval are history, not fields of the object. prev: the tree of
\* the evaluation that the last parse() replaced, 0 if there was none or it
\* had failed. inval: invalidate() was called since the last parse())
NewCtx(uri, conf, env) ==
    [uri |-> uri, conf |-> conf, env |-> env, board |-> BoardUri, version |-> 0,
     kconfig |-> NoKconfig, prev |-> 0, inval |-> FALSE, menu |-> <<>>,
     cmd_diags |-> <<>>, kconfig_diags |-> <<>>,
     fdiags |-> [i \in 1..Len(conf) |-> <<>>]]

\* an unused slot of the object heap
FreeSlot == NewCtx(NoUri, <<>>, "full")

\* KconfigContext.valid
Valid(s) == s.kconfig.st # "none" /\ s.kconfig.valid

\* KconfigContext.clear_diags, were it to leave the conf files' diags
clear_diags_KeepFiles(s) ==
    [s EXCEPT !.kconfig.diags = <<>>,
              !.kconfig_diags = <<>>,
              !.cmd_diags = <<>>]

\* KconfigContext.clear_diags
clear_diags(s) ==
    [s EXCEPT !.kconfig.diags = <<>>,
              !.kconfig_diags = <<>>,
              !.cmd_diags = <<>>,
              !.fdiags = [i \in 1..Len(s.conf) |-> <<>>]]

\* KconfigContext.invalidate, were it to drop the evaluation and the menu
invalidate_Reset(s) ==
    [s EXCEPT !.kconfig = NoKconfig, !.menu = <<>>, !.inval = TRUE]

\* KconfigContext.invalidate
invalidate(s) ==
    IF s.kconfig.st # "none"
    THEN [s EXCEPT !.kconfig.valid = FALSE, !.inval = TRUE]
    ELSE [s EXCEPT !.inval = TRUE]

\* the URI a KconfigError is reported at (Kconfig.loc)
KconfigFileUri == "Kconfig"

\* KconfigContext.initialize_env: TRUE if it returns, FALSE if
\* self.env['ZEPHYR_BASE'] raises KeyError
initialize_env(s) == s.env = "full"

\* KconfigContext.parse; oc is what the engine does. If initialize_env
\* raises, parse() raises with it: the value is the session as the
\* exception leaves it
parse(s, oc) ==
    IF ~initialize_env(s) THEN clear_diags([s EXCEPT !.menu = <<>>]) ELSE
    LET c == clear_diags([s EXCEPT !.menu = <<>>, !.prev = s.kconfig.tree,
                                   !.inval = FALSE])
        k == [c EXCEPT !.kconfig = KconfigParse(s.version + 1, oc)]
        d == CASE oc.res = "kerr_loc" ->
                    [k EXCEPT !.kconfig_diags = Append(@, <<KconfigFileUri, "parse_error">>)]
               [] oc.res = "kerr_noloc" ->
                    [k EXCEPT !.cmd_diags = Append(@, "parse_error")]
               [] oc.res = "exc" ->
                    [k EXCEPT !.cmd_diags = Append(@, "kconfig_failed")]
               [] OTHER -> k
    IN  [d EXCEPT !.version = @ + 1]

\* what the engine and the lint pass can yield in load_config:
\*   clean: no finding; lint: a lint finding in every override file;
\*   warn_cmd / warn_file: an engine warning without / with a conf file name;
\*   raise: an exception before lint; lint_raise: an exception during lint,
\*   after the first file's findings were recorded
LoadOutcomes == {"clean", "lint", "warn_cmd", "warn_file", "raise", "lint_raise"}

\* the files whose document the store can supply (documentStore.get)
Avail(dcs, dsk) == dcs \cup dsk

\* KconfigContext.load_config, were its except clauses to record nothing
load_config_Silent(s, lc, avail) ==
    LET missing == \E i \in 1..Len(s.conf) : s.conf[i] \notin avail
    IN  IF s.kconfig.st = "none" \/ missing \/ lc = "raise" THEN s
        ELSE CASE lc = "lint" ->
                    [s EXCEPT !.fdiags = [i \in 1..Len(s.conf) |-> Append(@[i], "lint")]]
               [] lc = "lint_raise" ->
                    [s EXCEPT !.fdiags = [i \in 1..Len(s.conf) |->
                                            IF i = 1 THEN Append(@[i], "lint") ELSE @[i]]]
               [] lc = "warn_cmd" ->
                    [s EXCEPT !.kconfig.diags = Append(@, <<"", "warn">>),
                              !.cmd_diags = Append(@, "warn")]
               [] lc = "warn_file" ->
                    IF Len(s.conf) > 0
                    THEN [s EXCEPT !.kconfig.diags = Append(@, <<s.conf[1], "warn">>),
                                   !.fdiags[1] = Append(@, "warn")]
                    ELSE s
               [] OTHER -> s

\* KconfigContext.load_config; lc is what the engine and lint yield,
\* avail the files the document store can supply
load_config(s, lc, avail) ==
    LET missing == \E i \in 1..Len(s.conf) : s.conf[i] \notin avail
        failed  == [s EXCEPT !.cmd_diags = Append(@, "load_failed")]
    IN  IF s.kconfig.st = "none" \/ missing \/ lc = "raise" THEN failed
        ELSE CASE lc = "lint" ->
                    [s EXCEPT !.fdiags = [i \in 1..Len(s.conf) |-> Append(@[i], "lint")]]
               [] lc = "lint_raise" ->
                    [s EXCEPT !.fdiags = [i \in 1..Len(s.conf) |->
                                            IF i = 1 THEN Append(@[i], "lint") ELSE @[i]],
                              !.cmd_diags = Append(@, "load_failed")]
               [] lc = "warn_cmd" ->
                    [s EXCEPT !.kconfig.diags = Append(@, <<"", "warn">>),
                              !.cmd_diags = Append(@, "warn")]
               [] lc = "warn_file" ->
                    IF Len(s.conf) > 0
                    THEN [s EXCEPT !.kconfig.diags = Append(@, <<s.conf[1], "warn">>),
                                   !.fdiags[1] = Append(@, "warn")]
                    ELSE s
               [] OTHER -> s

\* the files lint reads through the document store (all_entries): the
\* board file and every override file, cached by DocumentStore._from_disk
LoadReads(s, lc, avail) ==
    IF s.kconfig.st = "none" \/ lc = "raise"
       \/ (\E i \in 1..Len(s.conf) : s.conf[i] \notin avail)
    THEN {}
    ELSE {s.board} \cup SeqRange(s.conf)

CommandLineUri == "command-line"

\* the publishDiagnostics notifications refresh_ctx sends, in order
Publications(s) ==
    [i \in 1..Len(s.conf) |-> <<s.conf[i], s.fdiags[i]>>]
    \o << <<CommandLineUri, s.cmd_diags>> >>
    \o (IF s.kconfig_diags # <<>>
        THEN << <<KconfigFileUri, [i \in 1..Len(s.kconfig_diags) |-> s.kconfig_diags[i][2]]>> >>
        ELSE <<>>)

\* KconfigServer.refresh_ctx: the session afterwards, the number of parse()
\* calls made, the notifications sent, the files read into the store, and
\* whether it raised (parse() did, in initialize_env)
refresh_ctx(s, oc, lc, avail) ==
    LET c == clear_diags(s)
        p == IF ~Valid(c) THEN parse(c, oc) ELSE c
        l == load_config(p, lc, avail)
    IN  IF ~Valid(c) /\ ~initialize_env(c)
        THEN [s |-> p, nparse |-> 1, pubs |-> <<>>, reads |-> {}, exc |-> TRUE]
        ELSE [s |-> l,
              nparse |-> IF ~Valid(c) THEN 1 ELSE 0,
              pubs |-> Publications(l),
              reads |-> LoadReads(p, lc, avail),
              exc |-> FALSE]

\* the results refresh_ctx can have when the engine does one of OC in
\* parse() and the engine and lint yield one of LC in load_config()
Refreshes(s, OC, LC, avail) ==
    {refresh_ctx(s, oc, lc, avail) : oc \in OC, lc \in LC}

\* KconfigContext.has_file
has_file(s, uri, avail) ==
    (\E i \in 1..Len(s.conf) : s.conf[i] \in avail /\ s.conf[i] = uri)
    \/ s.board = uri

\* KconfigContext.conf_file: is there a conf file with this URI
conf_file(s, uri) == uri = s.board \/ uri \in SeqRange(s.conf)

----------------------------------------------------------------------------
(* Node identity tokens *)

\* A token is the list of its '@'-separated fields. A field is a string:
\* a word (kind "s"), or the decimal digits of a number (kind "d", what
\* str(n) returns and int() accepts). Kind "i" is a Python int that was put
\* in the list without str(): str.join raises TypeError on it.
S(w) == [k |-> "s", s |-> w, n |-> 0]

D(n) == [k |-> "d", s |-> "", n |-> n]

I(n) == [k |-> "i", s |-> "", n |-> n]

\* result of _node_id: an id, the empty string, or an exception
IdOf(parts) == [kind |-> "id", id |-> parts, exc |-> ""]

IdEmpty == [kind |-> "empty", id |-> <<>>, exc |-> ""]

IdRaise(e) == [kind |-> "raise", id |-> <<>>, exc |-> e]

\* ID_SEP.join(parts)
Join(parts) ==
    IF \E i \in 1..Len(parts) : parts[i].k = "i"
    THEN IdRaise("TypeError")
    ELSE IdOf(parts)

\* KconfigContext._node_id, for a node of the session's current evaluation
_node_id(s, node) ==
    IF s.kconfig.st = "none" THEN IdEmpty
    ELSE LET parts ==
                 CASE node.type = "MAINMENU" -> <<S("MAINMENU")>>
                   [] node.type = "MENU"     -> <<S("MENU"), D(node.idx)>>
                   [] node.type = "SYM"      -> <<S("SYM"), S(node.name), D(node.idx)>>
                   [] node.type = "CHOICE"   -> <<S("CHOICE"), I(node.idx)>>
                   [] node.type = "COMMENT"  -> <<S("COMMENT"), I(node.idx)>>
                   [] OTHER                  -> <<S("UNKNOWN"), S("file"), I(node.idx)>>
         IN  Join(<<D(s.version)>> \o parts)

\* result of find_node: a node, None, or an exception (with its error code)
Found(n) == [kind |-> "node", node |-> n, exc |-> "", code |-> 0]

NotFound == [kind |-> "none", node |-> NoNode, exc |-> "", code |-> 0]

Raised(e, c) == [kind |-> "raise", node |-> NoNode, exc |-> e, code |-> c]

\* KconfigErrorCode
UNKNOWN_NODE == 1

DESYNC == 2

PARSING_FAILED == 3

\* RPCErrorCode
METHOD_NOT_FOUND == -32601

UNKNOWN_ERROR_CODE == -32001

\* list[int(field)] on one of the engine's lists, of length len
ListAt(type, name, parts, pos, len) ==
    IF Len(parts) < pos THEN Raised("IndexError", 0)
    ELSE IF parts[pos].k # "d" THEN Raised("ValueError", 0)
    ELSE IF parts[pos].n >= len THEN Raised("IndexError", 0)
    ELSE Found(Node(type, name, parts[pos].n))

\* KconfigContext.find_node
find_node(s, id) ==
    IF Len(id) < 2 \/ id[1].k # "d" THEN Raised("ValueError", 0)
    ELSE IF id[1].n # s.version THEN NotFound
    ELSE LET type  == id[2].s
             parts == SubSeq(id, 3, Len(id))
             t     == s.kconfig.tree
         IN  IF type \notin {"MENU", "SYM", "CHOICE", "COMMENT", "MAINMENU"} THEN NotFound
             ELSE IF s.kconfig.st # "ok" THEN Raised("AttributeError", 0)
             ELSE CASE type = "MENU"    -> ListAt("MENU", "", parts, 1, TreeMenus(t))
                    [] type = "CHOICE"  -> ListAt("CHOICE", "", parts, 1, TreeChoices(t))
                    [] type = "COMMENT" -> ListAt("COMMENT", "", parts, 1, TreeComments(t))
                    [] type = "SYM"     ->
                         IF Len(parts) < 1 THEN Raised("IndexError", 0)
                         ELSE IF TreeSymNodes(t, parts[1].s) = 0 THEN Raised("KeyError", 0)
                         ELSE ListAt("SYM", parts[1].s, parts, 2, TreeSymNodes(t, parts[1].s))
                    [] OTHER            -> Found(Node("MAINMENU", "", 0))

\* KconfigContext.get_menu(id), called with the id handle_set_menu was given
get_menu(s, id) ==
    IF id = <<>> THEN NotFound
    ELSE LET r == find_node(s, id)
         IN  IF r.kind = "node"
             THEN Raised("TypeError", 0)   \* KconfigMenu(node, id): an argument is missing
             ELSE r

----------------------------------------------------------------------------
(* KconfigServer: registry and router *)

\* self.ctx.get(str(uri)): the registered object under this key, or NoObj
CtxGet(h, reg, u) ==
    LET i == FirstIdx(reg, LAMBDA o : h[o].uri = u, 1)
    IN  IF i = 0 THEN NoObj ELSE reg[i]

\* objects still referenced by the server
Live(reg, lst) == (SeqRange(reg) \cup {lst}) \ {NoObj}

\* unreferenced KconfigContext objects are gone
Collect(h, reg, lst) ==
    [o \in ObjIds |-> IF o \in Live(reg, lst) THEN h[o] ELSE FreeSlot]

\* KconfigServer.best_ctx, were the last-used session asked before the
\* active one
best_ctx_LastFirst(h, reg, main, lst, uri, avail) ==
    LET m == IF main # NoUri THEN CtxGet(h, reg, main) ELSE NoObj
        i == FirstIdx(reg, LAMBDA o : has_file(h[o], uri, avail), 1)
    IN  IF lst # NoObj /\ has_file(h[lst], uri, avail)
        THEN [ret |-> lst, last |-> lst, asked |-> {lst}, via |-> "last"]
        ELSE IF m # NoObj /\ has_file(h[m], uri, avail)
        THEN [ret |-> m, last |-> m, asked |-> ({m, lst} \ {NoObj}), via |-> "active"]
        ELSE IF i # 0
        THEN [ret |-> reg[i], last |-> reg[i],
              asked |-> ({m, lst} \cup {reg[j] : j \in 1..i}) \ {NoObj}, via |-> "scan"]
        ELSE [ret |-> NoObj, last |-> lst,
              asked |-> ({m, lst} \cup SeqRange(reg)) \ {NoObj}, via |-> "none"]

\* KconfigServer.best_ctx, were the last-used session not asked at all
best_ctx_NoSticky(h, reg, main, lst, uri, avail) ==
    LET m == IF main # NoUri THEN CtxGet(h, reg, main) ELSE NoObj
        i == FirstIdx(reg, LAMBDA o : has_file(h[o], uri, avail), 1)
    IN  IF m # NoObj /\ has_file(h[m], uri, avail)
        THEN [ret |-> m, last |-> m, asked |-> {m}, via |-> "active"]
        ELSE IF i # 0
        THEN [ret |-> reg[i], last |-> reg[i],
              asked |-> ({m} \cup {reg[j] : j \in 1..i}) \ {NoObj}, via |-> "scan"]
        ELSE [ret |-> NoObj, last |-> lst,
              asked |-> ({m} \cup SeqRange(reg)) \ {NoObj}, via |-> "none"]

\* KconfigServer.best_ctx, were last_ctx assigned the outcome of the scan
\* without the "if ctx:" before it
best_ctx_ForgetOnNone(h, reg, main, lst, uri, avail) ==
    LET m == IF main # NoUri THEN CtxGet(h, reg, main) ELSE NoObj
        i == FirstIdx(reg, LAMBDA o : has_file(h[o], uri, avail), 1)
    IN  IF m # NoObj /\ has_file(h[m], uri, avail)
        THEN [ret |-> m, last |-> m, asked |-> {m}, via |-> "active"]
        ELSE IF lst # NoObj /\ has_file(h[lst], uri, avail)
        THEN [ret |-> lst, last |-> lst, asked |-> ({m, lst} \ {NoObj}), via |-> "last"]
        ELSE IF i # 0
        THEN [ret |-> reg[i], last |-> reg[i],
              asked |-> ({m, lst} \cup {reg[j] : j \in 1..i}) \ {NoObj}, via |-> "scan"]
        ELSE [ret |-> NoObj, last |-> NoObj,
              asked |-> ({m, lst} \cup SeqRange(reg)) \ {NoObj}, via |-> "none"]

\* KconfigServer.best_ctx: the session returned (NoObj for None), the new
\* last_ctx and the sessions whose has_file was evaluated
best_ctx(h, reg, main, lst, uri, avail) ==
    LET m == IF main # NoUri THEN CtxGet(h, reg, main) ELSE NoObj
        i == FirstIdx(reg, LAMBDA o : has_file(h[o], uri, avail), 1)
    IN  IF m # NoObj /\ has_file(h[m], uri, avail)
        THEN [ret |-> m, last |-> m, asked |-> {m}, via |-> "active"]
        ELSE IF lst # NoObj /\ has_file(h[lst], uri, avail)
        THEN [ret |-> lst, last |-> lst, asked |-> ({m, lst} \ {NoObj}), via |-> "last"]
        ELSE IF i # 0
        THEN [ret |-> reg[i], last |-> reg[i],
              asked |-> ({m, lst} \cup {reg[j] : j \in 1..i}) \ {NoObj}, via |-> "scan"]
        ELSE [ret |-> NoObj, last |-> lst,
              asked |-> ({m, lst} \cup SeqRange(reg)) \ {NoObj}, via |-> "none"]

\* DocumentStore.get, were a buffer made for every URI asked for
documentStore_get_Fabricate(dcs, dsk, uri, create) ==
    [doc |-> TRUE, docs |-> dcs \cup {uri}, exc |-> FALSE]

\* DocumentStore.get; no provider is ever registered. A buffer in the store
\* is returned; if there is none and create is set, _from_disk reads the
\* file and stores a buffer, and the EnvironmentError of a file that does
\* not exist is caught.  doc: a buffer is returned; docs: the store after
\* the call; exc: the call raised
documentStore_get(dcs, dsk, uri, create) ==
    IF uri \in dcs THEN [doc |-> TRUE, docs |-> dcs, exc |-> FALSE]
    ELSE IF create /\ uri \in dsk
         THEN [doc |-> TRUE, docs |-> dcs \cup {uri}, exc |-> FALSE]
         ELSE [doc |-> FALSE, docs |-> dcs, exc |-> FALSE]

\* ConfFile.doc in has_file reads every override file of the session through
\* the document store, which caches what it finds on disk
RouterReads(h, asked, dsk) ==
    UNION {documentStore_get({}, dsk, f, TRUE).docs :
              f \in UNION {SeqRange(h[o].conf) : o \in asked}}

\* what the server did for the last message it handled:
\*   rsp: the response sent: "none" (a notification: no response), "null",
\*        "value", "error", or "crash" (the handler raised, the exception
\*        left the dispatch loop and nothing was sent);
\*   code: the error code of an error response;
\*   nparse: parse() calls made; pubs: publishDiagnostics sent, in order;
\*   uri, via: the resource best_ctx was asked about and the rule that
\*        chose the session ("active", "last", "scan", or "none" when no
\*        session claims it); both "" if the handler does not route
Outcome(rsp, code, nparse, pubs) ==
    [rsp |-> rsp, code |-> code, nparse |-> nparse, pubs |-> pubs,
     uri |-> NoUri, via |-> ""]

RoutedOutcome(rsp, code, nparse, pubs, uri, via) ==
    [rsp |-> rsp, code |-> code, nparse |-> nparse, pubs |-> pubs,
     uri |-> uri, via |-> via]

\* What a run is bounded by, and what the engine may do in it:
\*   oc: the engine's results in parse(); lc: the results of the engine and
\*   lint in load_config(); envs: the env of a build a client adds; objs: KconfigContext objects alive at once;
\*   vmax: parse() is not called on a session that has reached this version
Env(oc, lc, envs, objs, vmax) ==
    [oc |-> oc, lc |-> lc, envs |-> envs, objs |-> objs, vmax |-> vmax]

VersionsBounded(h, E) == \A o \in ObjIds : h[o].version <= E.vmax

----------------------------------------------------------------------------
(* KconfigServer: request and notification handlers *)

\* a handler returned: the loop goes on
Handled(h, reg, lst, dcs, o, E) ==
    /\ VersionsBounded(h, E)
    /\ heap' = Collect(h, reg, lst)
    /\ ctx' = reg
    /\ last_ctx' = lst
    /\ docs' = dcs
    /\ last' = o
    /\ pc' = "loop"
    /\ UNCHANGED <<disk, lintVars, docVars, sideVars>>

\* a handler raised: RPCServer.handle re-raises, loop() does not catch it
\* nparse: the parse() calls made before it raised
CrashedAfter(h, reg, lst, dcs, nparse) ==
    /\ heap' = Collect(h, reg, lst)
    /\ ctx' = reg
    /\ last_ctx' = lst
    /\ docs' = dcs
    /\ last' = Outcome("crash", 0, nparse, <<>>)
    /\ pc' = "crashed"
    /\ UNCHANGED <<disk, lintVars, docVars, sideVars>>

Crashed(h, reg, lst, dcs) == CrashedAfter(h, reg, lst, dcs, 0)

\* the slot a new KconfigContext takes: the lowest unused one among 1..N
NewObj(reg, lst, N) ==
    LET free == (1..N) \ Live(reg, lst)
    IN  IF free = {} THEN NoObj ELSE CHOOSE o \in free : \A q \in free : o <= q

\* self.ctx[str(uri)] = ctx: a dict keeps the position of a key it has
DictSet(h, reg, u, o) ==
    LET i == FirstIdx(reg, LAMBDA q : h[q].uri = u, 1)
    IN  IF i = 0 THEN Append(reg, o) ELSE [reg EXCEPT ![i] = o]

\* @handler('kconfig/addBuild'); N bounds the objects alive
handle_add_build(u, conf, E) ==
    /\ pc = "loop"
    /\ LET o   == NewObj(ctx, last_ctx, E.objs)
           reg == DictSet(heap, ctx, u, o)
       IN  /\ o # NoObj
           /\ IF u = main_uri
              THEN \E env \in E.envs :
                   \E r \in Refreshes(NewCtx(u, conf, env), E.oc, E.lc, Avail(docs, disk)) :
                       IF r.exc
                       THEN CrashedAfter([heap EXCEPT ![o] = r.s], reg, o, docs, r.nparse)
                       ELSE Handled([heap EXCEPT ![o] = r.s], reg, o,
                                    docs \cup (r.reads \cap disk),
                                    Outcome("value", 0, r.nparse, r.pubs), E)
              ELSE \E env \in E.envs :
                       Handled([heap EXCEPT ![o] = NewCtx(u, conf, env)], reg, last_ctx,
                               docs, Outcome("value", 0, 0, <<>>), E)
    /\ UNCHANGED main_uri

\* @handler('kconfig/removeBuild')
handle_remove_build(u, E) ==
    /\ pc = "loop"
    /\ LET i == FirstIdx(ctx, LAMBDA q : heap[q].uri = u, 1)
           reg == IF i = 0 THEN ctx ELSE RemoveAt(ctx, i)
       IN  Handled(heap, reg, last_ctx, docs, Outcome("null", 0, 0, <<>>), E)
    /\ UNCHANGED main_uri

\* @handler('kconfig/setMainBuild')
handle_set_build(u, E) ==
    /\ pc = "loop"
    /\ main_uri' = u
    /\ LET c == CtxGet(heap, ctx, u)
       IN  IF c # NoObj
           THEN \E r \in Refreshes(heap[c], E.oc, E.lc, Avail(docs, disk)) :
                    IF r.exc
                    THEN CrashedAfter([heap EXCEPT ![c] = r.s], ctx, c, docs, r.nparse)
                    ELSE Handled([heap EXCEPT ![c] = r.s], ctx, c,
                                 docs \cup (r.reads \cap disk),
                                 Outcome("null", 0, r.nparse, r.pubs), E)
           ELSE Handled(heap, ctx, last_ctx, docs, Outcome("null", 0, 0, <<>>), E)

\* the ids a client can send for a session: the ones _node_id gives for the
\* nodes of its current evaluation, the ones it gave for the nodes of the
\* evaluation before the last parse(), and the empty id
IssuedNow(s) ==
    {r.id : r \in {q \in {_node_id(s, n) : n \in TreeNodes(s.kconfig.tree)} : q.kind = "id"}}

IssuedBefore(s) ==
    LET old == [s EXCEPT !.version = s.version - 1,
                         !.kconfig.st = "ok", !.kconfig.tree = s.prev]
    IN  {r.id : r \in {q \in {_node_id(old, n) : n \in TreeNodes(s.prev)} : q.kind = "id"}}

ClientIds(s) == IssuedNow(s) \cup IssuedBefore(s) \cup {<<>>}

\* @handler('kconfig/setMenu')
handle_set_menu(u, id, E) ==
    /\ pc = "loop"
    /\ LET c == CtxGet(heap, ctx, u)
       IN  IF c = NoObj
           THEN Crashed(heap, ctx, last_ctx, docs)   \* KeyError
           ELSE LET h == [heap EXCEPT ![c].menu = id]
                    r == get_menu(h[c], id)
                IN  /\ id \in ClientIds(heap[c])
                    /\ IF r.kind = "raise"
                       THEN Crashed(h, ctx, last_ctx, docs)
                       ELSE Handled(h, ctx, last_ctx, docs, Outcome("null", 0, 0, <<>>), E)
    /\ UNCHANGED main_uri

\* self.ctx[params['ctx']] of handle_search, handle_set_menu and
\* handle_setval: a dict subscript, KeyError if no build has this URI
CtxItem(h, reg, u) ==
    IF CtxGet(h, reg, u) = NoObj THEN Raised("KeyError", 0) ELSE NotFound

\* kconfig/search, up to the response: what escapes RPCServer.handle.
\* symbols() reads self._kconfig.syms, which raises before the first
\* parse(); symbol_search returns a map object, for which the encoder of
\* encode_json finds neither to_dict nor __dict__ when the response is sent
search(h, reg, u) ==
    IF CtxItem(h, reg, u).kind = "raise" THEN CtxItem(h, reg, u)
    ELSE IF h[CtxGet(h, reg, u)].kconfig.st = "none"
         THEN Raised("AttributeError", 0)
         ELSE Raised("AttributeError", 0)

handle_search(u, E) ==
    /\ pc = "loop"
    /\ IF search(heap, ctx, u).kind = "raise"
       THEN Crashed(heap, ctx, last_ctx, docs)
       ELSE Handled(heap, ctx, last_ctx, docs, Outcome("result", 0, 0, <<>>), E)
    /\ UNCHANGED main_uri

\* KconfigContext.get: the symbol of this name in kconfig.syms, if any
get(s, name) == s.kconfig.st # "none" /\ TreeSymNodes(s.kconfig.tree, name) > 0

\* the names a client asks about
SetNames == SymNames \cup {"QUX"}

\* KconfigContext.set; accepted: what sym.set_value(val) returns.
\* self.modified is a dict where parse() has run and no attribute where it
\* has not: append raises either way
set(s, name, accepted) ==
    IF ~get(s, name) THEN Raised("RPCError", UNKNOWN_NODE)
    ELSE IF accepted THEN Raised("AttributeError", 0)
    ELSE NotFound

\* KconfigContext.unset
unset(s, name) == NotFound

\* kconfig/setVal; given: the request has a 'val'
handle_setval(u, name, given, accepted, E) ==
    /\ pc = "loop"
    /\ IF CtxItem(heap, ctx, u).kind = "raise"
       THEN Crashed(heap, ctx, last_ctx, docs)
       ELSE LET c == CtxGet(heap, ctx, u)
                r == IF given THEN set(heap[c], name, accepted)
                              ELSE unset(heap[c], name)
            IN  IF r.kind = "raise"
                THEN Crashed(heap, ctx, last_ctx, docs)
                ELSE Handled(heap, ctx, last_ctx, docs, Outcome("null", 0, 0, <<>>), E)
    /\ UNCHANGED main_uri

\* the routing prologue shared by get_sym, handle_completion and
\* handle_code_action: best_ctx, then refresh_ctx if the session is not valid
RouteAndRefresh(f, oc, lc) ==
    LET b  == best_ctx(heap, ctx, main_uri, last_ctx, f, Avail(docs, disk))
        d1 == docs \cup RouterReads(heap, b.asked, disk)
    IN  IF b.ret = NoObj
        THEN [h |-> heap, lst |-> b.last, docs |-> d1, obj |-> NoObj,
              nparse |-> 0, pubs |-> <<>>, via |-> b.via, exc |-> FALSE]
        ELSE IF ~Valid(heap[b.ret])
        THEN LET r == refresh_ctx(heap[b.ret], oc, lc, Avail(d1, disk))
             IN  [h |-> [heap EXCEPT ![b.ret] = r.s], lst |-> b.last,
                  docs |-> d1 \cup (r.reads \cap disk), obj |-> b.ret,
                  nparse |-> r.nparse, pubs |-> r.pubs, via |-> b.via,
                  exc |-> r.exc]
        ELSE [h |-> heap, lst |-> b.last, docs |-> d1, obj |-> b.ret,
              nparse |-> 0, pubs |-> <<>>, via |-> b.via, exc |-> FALSE]

Routes(f, OC, LC) == {RouteAndRefresh(f, oc, lc) : oc \in OC, lc \in LC}

\* KconfigServer.get_sym: found says whether symbol_at finds a symbol under
\* the cursor; the handler answers with a value only then
get_sym(f, found, E) ==
    \E g \in Routes(f, E.oc, E.lc) :
        IF g.exc THEN CrashedAfter(g.h, ctx, g.lst, g.docs, g.nparse) ELSE
        Handled(g.h, ctx, g.lst,
                IF g.obj # NoObj THEN documentStore_get(g.docs, disk, f, TRUE).docs ELSE g.docs,
                RoutedOutcome(IF g.obj # NoObj /\ found THEN "value" ELSE "null",
                              0, g.nparse, g.pubs, f, g.via), E)

\* @handler('textDocument/hover')
handle_hover(f, found, E) ==
    /\ pc = "loop"
    /\ get_sym(f, found, E)
    /\ UNCHANGED main_uri

\* @handler('textDocument/definition')
handle_definition(f, found, E) ==
    /\ pc = "loop"
    /\ get_sym(f, found, E)
    /\ UNCHANGED main_uri

\* @handler('textDocument/completion')
handle_completion(f, E) ==
    /\ pc = "loop"
    /\ \E g \in Routes(f, E.oc, E.lc) :
         LET d == documentStore_get(g.docs, disk, f, TRUE).docs
         IN  IF g.exc THEN CrashedAfter(g.h, ctx, g.lst, g.docs, g.nparse) ELSE
             Handled(g.h, ctx, g.lst, IF g.obj # NoObj THEN d ELSE g.docs,
                     RoutedOutcome(IF g.obj # NoObj /\ f \in d THEN "value" ELSE "null",
                                   0, g.nparse, g.pubs, f, g.via), E)
    /\ UNCHANGED main_uri

\* @handler('textDocument/codeAction')
handle_code_action(f, E) ==
    /\ pc = "loop"
    /\ \E g \in Routes(f, E.oc, E.lc) :
         IF g.exc THEN CrashedAfter(g.h, ctx, g.lst, g.docs, g.nparse) ELSE
         Handled(g.h, ctx, g.lst, g.docs,
                 RoutedOutcome(IF g.obj # NoObj /\ conf_file(g.h[g.obj], f)
                               THEN "value" ELSE "null",
                               0, g.nparse, g.pubs, f, g.via), E)
    /\ UNCHANGED main_uri

\* @handler('textDocument/documentSymbol')
handle_doc_symbols(f, E) ==
    /\ pc = "loop"
    /\ LET b  == best_ctx(heap, ctx, main_uri, last_ctx, f, Avail(docs, disk))
           d1 == docs \cup RouterReads(heap, b.asked, disk)
       IN  IF b.ret = NoObj \/ ~conf_file(heap[b.ret], f)
           THEN Handled(heap, ctx, b.last, d1,
                        RoutedOutcome("null", 0, 0, <<>>, f, b.via), E)
           ELSE IF f \notin Avail(d1, disk)
           THEN Crashed(heap, ctx, b.last, d1)     \* ConfFile.doc is None
           ELSE Handled(heap, ctx, b.last, d1 \cup {f},
                        RoutedOutcome("value", 0, 0, <<>>, f, b.via), E)
    /\ UNCHANGED main_uri

\* @handler('textDocument/didOpen'): DocumentStore.open
handle_open(f, E) ==
    /\ pc = "loop"
    /\ Handled(heap, ctx, last_ctx, docs \cup {f}, Outcome("none", 0, 0, <<>>), E)
    /\ UNCHANGED main_uri

\* @handler('textDocument/didChange'): LSPServer.handle_change, then
\* refresh_ctx(self.last_ctx) if there is one
handle_change(f, E) ==
    /\ pc = "loop"
    /\ LET d1 == documentStore_get(docs, disk, f, TRUE).docs
       IN  IF last_ctx # NoObj
           THEN \E r \in Refreshes(heap[last_ctx], E.oc, E.lc, Avail(d1, disk)) :
                    IF r.exc
                    THEN CrashedAfter([heap EXCEPT ![last_ctx] = r.s], ctx, last_ctx,
                                      d1, r.nparse)
                    ELSE Handled([heap EXCEPT ![last_ctx] = r.s], ctx, last_ctx,
                                 d1 \cup (r.reads \cap disk),
                                 Outcome("none", 0, r.nparse, r.pubs), E)
           ELSE Handled(heap, ctx, last_ctx, d1, Outcome("none", 0, 0, <<>>), E)
    /\ UNCHANGED main_uri

\* the watched files a change can be reported for: a Kconfig file, the
\* edt.pickle of a build directory, anything else
FileChange(base, build) == [base |-> base, build |-> build]

FileChanges ==
    {FileChange("Kconfig", NoUri), FileChange("other", NoUri)}
    \cup {FileChange("edt.pickle", u) : u \in CtxUris}

\* KconfigServer.on_file_change, were a changed Kconfig file to have every
\* session parsed again at once
on_file_change_Eager(h, reg, ch) ==
    IF ch.base = "Kconfig"
    THEN [o \in ObjIds |-> IF o \in SeqRange(reg)
                           THEN [h[o] EXCEPT !.version = @ + 1, !.inval = FALSE]
                           ELSE h[o]]
    ELSE IF ch.base = "edt.pickle"
    THEN LET c == CtxGet(h, reg, ch.build)
         IN  IF c # NoObj
             THEN [h EXCEPT ![c].version = @ + 1, ![c].inval = FALSE]
             ELSE h
    ELSE h

\* KconfigServer.on_file_change
on_file_change(h, reg, ch) ==
    IF ch.base = "Kconfig"
    THEN [o \in ObjIds |-> IF o \in SeqRange(reg) THEN invalidate(h[o]) ELSE h[o]]
    ELSE IF ch.base = "edt.pickle"
    THEN LET c == CtxGet(h, reg, ch.build)
         IN  IF c # NoObj THEN [h EXCEPT ![c] = invalidate(h[c])] ELSE h
    ELSE h

\* the loop over params['changes']
RECURSIVE OnFileChanges(_, _, _)
OnFileChanges(h, reg, chs) ==
    IF chs = <<>> THEN h
    ELSE OnFileChanges(on_file_change(h, reg, Head(chs)), reg, Tail(chs))

\* number of changes one workspace/didChangeWatchedFiles notification carries
MaxChanges == 1

ChangeLists == UNION {[1..n -> FileChanges] : n \in 1..MaxChanges}

\* @handler('workspace/didChangeWatchedFiles')
handle_changed_watched_files(chs, E) ==
    /\ pc = "loop"
    /\ Handled(OnFileChanges(heap, ctx, chs), ctx, last_ctx, docs,
               Outcome("none", 0, 0, <<>>), E)
    /\ UNCHANGED main_uri

----------------------------------------------------------------------------
(* KconfigContext.lint: the checks on the entries of the conf files *)

\* ConfEntry: CONFIG_<name>=<raw>
Entry(name, raw) == [name |-> name, raw |-> raw]

\* ConfEntry.is_hex, is_int, is_bool for the raw values of the model
\* ("0x10" matches both the hex and the int pattern)
is_hex(raw) == raw = "0x10"

is_int(raw) == raw \in {"16", "0x10"}

is_bool(raw) == raw \in {"y", "n"}

\* ConfEntry.type: is_string, is_hex, is_int, is_bool in this order
EntryType(raw) ==
    IF is_hex(raw) THEN "hex"
    ELSE IF is_int(raw) THEN "int"
    ELSE IF is_bool(raw) THEN "bool"
    ELSE "unknown"

\* ConfEntry.value: the raw text of a bool, int(raw, 16) of a hex,
\* int(raw) of an int; k says what Python type the value has
EntryValue(raw) ==
    IF is_bool(raw) THEN [k |-> "str", v |-> raw]
    ELSE IF is_hex(raw) THEN [k |-> "int", v |-> "16"]
    ELSE IF is_int(raw) THEN [k |-> "int", v |-> raw]
    ELSE [k |-> "none", v |-> "None"]

\* a value in an f-string
Fmt(value) == value.v

\* hex(n) and str(n) of a value that is an int
HexOf(value) == IF value.v = "16" THEN "0x10" ELSE "0x" \o value.v

StrOf(value) == value.v

\* kconfiglib.TYPE_TO_STR
TYPE_TO_STR(type) ==
    CASE type = "UNKNOWN" -> "unknown"
      [] type = "BOOL" -> "bool"
      [] type = "INT" -> "int"
      [] type = "HEX" -> "hex"

\* a failing dependency in _missing_deps(sym): its expr_str, and whether
\* it is a kconfiglib.Symbol of type BOOL
Dep(name, bool) == [name |-> name, bool |-> bool]

\* the lists _missing_deps can return, in the order the engine finds them
DepLists ==
    {<<>>, <<Dep("BAR", TRUE)>>, <<Dep("BAR", TRUE), Dep("BAZ", TRUE)>>,
     <<Dep("BAR || BAZ", FALSE)>>}

\* what the engine tells about a symbol after the conf files were loaded:
\*   type; user: user_value, the tristate 0 or 2 of a bool ("tri0", "tri2"),
\*   a string for the other types, "None" if the symbol has none;
\*   str: str_value; dflt: _str_default(), a string for every type;
\*   deps: _missing_deps(sym); prompt: a node of the symbol has a prompt
Sym(type, user, str, dflt, deps, prompt) ==
    [type |-> type, user |-> user, str |-> str, dflt |-> dflt,
     deps |-> deps, prompt |-> prompt]

Symbols ==
    {Sym("BOOL", u, s, d, deps, p) :
        u \in {"None", "tri0", "tri2"}, s \in {"y", "n"}, d \in {"y", "n"},
        deps \in DepLists, p \in BOOLEAN}
    \cup {Sym("INT", u, s, d, deps, p) :
        u \in {"None", "16"}, s \in {"16", "5", ""}, d \in {"16", "5"},
        deps \in DepLists, p \in BOOLEAN}
    \cup {Sym("HEX", u, s, d, deps, p) :
        u \in {"None", "0x10"}, s \in {"0x10", ""}, d \in {"0x10", "0x5"},
        deps \in DepLists, p \in BOOLEAN}
    \cup {Sym("UNKNOWN", "None", "", "", <<>>, FALSE)}

\* BAR and BAZ, the symbols FOO can depend on: bools that are off
OffSym == Sym("BOOL", "tri0", "n", "y", <<>>, TRUE)

\* kconfiglib.TRI_TO_STR on a user_value; "KeyError" for what is no key
TRI_TO_STR(user) ==
    CASE user = "tri0" -> "n"
      [] user = "tri2" -> "y"
      [] OTHER -> "KeyError"

\* Diagnostic.ERROR, WARNING, HINT
ERROR == 1

WARNING == 2

HINT == 4

\* TextEdit in the file (conf file f): at "value" it replaces the value of
\* the entry on the line, at "line" the whole line with its line break, at
\* "line_start" it is the empty range at column 0 of the line
Edit(f, line, at, text) == [file |-> f, line |-> line, at |-> at, text |-> text]

\* CodeAction: its title and the edits of its WorkspaceEdit, in order
Action(title, edits) == [title |-> title, edits |-> edits]

\* ConfEntry.remove
remove(f, j, title) == Action(title, <<Edit(f, j, "line", "")>>)

\* Diagnostic.__init__ for the entry on line j: range is "name" for
\* entry.range, "full" for entry.full_range; msg is the message, piece by
\* piece. check names the check that made it (not part of the object).
Diag(j, range, check, sev, msg) ==
    [line |-> j, range |-> range, check |-> check, sev |-> sev, msg |-> msg,
     tags |-> <<>>, related |-> <<>>, actions |-> <<>>]

\* Diagnostic.mark_unnecessary
mark_unnecessary(d) == [d EXCEPT !.tags = Append(@, "UNNECESSARY")]

\* Diagnostic.add_action
add_action(d, a) == [d EXCEPT !.actions = Append(@, a)]

\* what a check does: ret is its return value (True or None), add the
\* diagnostics it appended to file.diags, exc whether it raised
Hit(d) == [ret |-> TRUE, add |-> <<d>>, exc |-> FALSE]

Miss == [ret |-> FALSE, add |-> <<>>, exc |-> FALSE]

CheckRaised == [ret |-> FALSE, add |-> <<>>, exc |-> TRUE]

\* KconfigContext.check_undefined, were it to offer the removal of the entry
check_undefined_WithRemove(f, j, entry, sym) ==
    IF sym.type = "UNKNOWN"
    THEN Hit(add_action(Diag(j, "full", "undefined", ERROR,
                             <<"Undefined symbol", entry.name>>),
                        remove(f, j, "Remove entry")))
    ELSE Miss

\* KconfigContext.check_undefined
check_undefined(f, j, entry, sym) ==
    IF sym.type = "UNKNOWN"
    THEN Hit(Diag(j, "full", "undefined", ERROR, <<"Undefined symbol", entry.name>>))
    ELSE Miss

\* KconfigContext.check_type
check_type(f, j, entry, sym) ==
    IF TYPE_TO_STR(sym.type) # EntryType(entry.raw)
    THEN LET d == Diag(j, "full", "type", ERROR,
                       <<"Invalid type. Expected", TYPE_TO_STR(sym.type)>>)
             v == EntryValue(entry.raw)
         IN  IF sym.type \in {"HEX", "INT"} /\ (is_hex(entry.raw) \/ is_int(entry.raw))
             THEN Hit(add_action(d,
                    Action("Convert value to " \o TYPE_TO_STR(sym.type),
                           <<Edit(f, j, "value",
                                  IF sym.type = "HEX" THEN HexOf(v) ELSE StrOf(v))>>)))
             ELSE Hit(d)
    ELSE Miss

\* the names of the entries of a file, by line
FirstEntry(entries, name) ==
    IF \E k \in 1..Len(entries) : entries[k].name = name
    THEN CHOOSE k \in 1..Len(entries) :
            /\ entries[k].name = name
            /\ \A i \in 1..(k - 1) : entries[i].name # name
    ELSE 0

\* check_assignment: the edit for a missing bool dependency, were a new
\* line put after the entry's line instead of before it
DepEdit_AfterLine(f, j, entries, dep) ==
    LET k == FirstEntry(entries, dep.name)
    IN  IF k # 0 THEN Edit(f, k, "value", "y")
        ELSE Edit(f, j + 1, "line_start", "CONFIG_" \o dep.name \o "=y\n")

\* check_assignment: the edit that enables a missing bool dependency
DepEdit(f, j, entries, dep) ==
    LET k == FirstEntry(entries, dep.name)
    IN  IF k # 0 THEN Edit(f, k, "value", "y")
        ELSE Edit(f, j, "line_start", "CONFIG_" \o dep.name \o "=y\n")

\* check_assignment: edits, the list of the edits for the bool
\* dependencies in deps
RECURSIVE DepEdits(_, _, _, _)
DepEdits(f, j, entries, deps) ==
    IF deps = <<>> THEN <<>>
    ELSE (IF Head(deps).bool
          THEN <<[dep |-> Head(deps).name, edit |-> DepEdit(f, j, entries, Head(deps))]>>
          ELSE <<>>)
         \o DepEdits(f, j, entries, Tail(deps))

\* list.reverse, were it to leave the list as it is
Reverse_Keep(s) == s

\* list.reverse
Reverse(s) == [i \in 1..Len(s) |-> s[Len(s) + 1 - i]]

\* KconfigContext.check_assignment; entries are file.entries().
\* TRI_TO_STR[None] is a KeyError; the diagnostic is made, and True
\* returned, only under "if deps:"
check_assignment(f, j, entry, sym, entries) ==
    LET user == IF sym.type = "BOOL" THEN TRI_TO_STR(sym.user) ELSE sym.user
        sev  == IF user = sym.str THEN HINT ELSE WARNING
        msg  == IF user = sym.str THEN <<"was already disabled.", entry.name>>
                ELSE IF Len(sym.str) > 0
                THEN <<"was assigned the value, but got the value",
                       entry.name, entry.raw, sym.str>>
                ELSE <<"couldn't be set.", entry.name>>
        edits == DepEdits(f, j, entries, sym.deps)
        fix  == IF Len(edits) = 1
                THEN <<Action("Enable CONFIG_" \o edits[1].dep \o " to resolve dependency",
                              <<edits[1].edit>>)>>
                ELSE IF Len(edits) > 1
                THEN <<Action("Enable " \o ToString(Len(edits))
                                \o " entries to resolve dependencies",
                              [i \in 1..Len(edits) |-> Reverse(edits)[i].edit])>>
                ELSE <<>>
        actions == fix \o <<remove(f, j, "Remove entry")>>
        d0   == Diag(j, "name", "assignment", sev,
                     msg \o <<"Missing dependencies:">>
                         \o [i \in 1..Len(sym.deps) |-> sym.deps[i].name])
        d1   == IF sev = HINT THEN mark_unnecessary(d0) ELSE d0
    IN  IF sym.type = "BOOL" /\ user = "KeyError" THEN CheckRaised
        ELSE IF user = sym.str /\ user = "y" THEN Miss
        ELSE IF sym.deps # <<>> THEN Hit([d1 EXCEPT !.actions = actions])
        ELSE Miss

\* KconfigContext.check_visibility
check_visibility(f, j, entry, sym) ==
    IF ~sym.prompt
    THEN Hit(add_action(Diag(j, "full", "visibility", WARNING,
                             <<"cannot be set (has no prompt)", entry.name>>),
                        remove(f, j, "Remove entry")))
    ELSE Miss

\* KconfigContext.check_defaults: sym._str_default() == sym.user_value
check_defaults(f, j, entry, sym) ==
    IF sym.dflt = sym.user
    THEN Hit(add_action(mark_unnecessary(Diag(j, "full", "defaults", HINT,
                                              <<"Value is by default", entry.raw>>)),
                        remove(f, j, "Remove redundant entry")))
    ELSE Miss

\* Location of an entry: the file (0 is the board's conf file, i the i-th
\* conf file) and the line. Location defines no __eq__: two of them are
\* equal only if they are the same object, and every call of
\* ConfFile.entries makes new ones; call names the call that made it
Loc(f, j, call) == [file |-> f, line |-> j, call |-> call]

\* ConfEntry.__eq__: self.loc == o.loc
EntryEq(a, b) == a.loc = b.loc

\* KconfigContext.all_entries: the board's entries, then every conf
\* file's, each with its loc
RECURSIVE all_entries_from(_, _)
all_entries_from(files, i) ==
    IF i > Len(files.conf) THEN <<>>
    ELSE [j \in 1..Len(files.conf[i]) |->
             [name |-> files.conf[i][j].name, raw |-> files.conf[i][j].raw,
              loc |-> Loc(i, j, "all_entries")]]
         \o all_entries_from(files, i + 1)

all_entries(files) ==
    [j \in 1..Len(files.board) |->
        [name |-> files.board[j].name, raw |-> files.board[j].raw,
         loc |-> Loc(0, j, "all_entries")]]
    \o all_entries_from(files, 1)

\* the subsequence of s whose elements satisfy the test (a list
\* comprehension with an if)
RECURSIVE MatchingEntries(_, _)
MatchingEntries(s, name) ==
    IF s = <<>> THEN <<>>
    ELSE (IF Head(s).name = name THEN <<Head(s)>> ELSE <<>>) \o MatchingEntries(Tail(s), name)

\* KconfigContext.check_multiple_assignments; entry is the one of the loop
\* in lint, made by the file.entries() call there
check_multiple_assignments(f, j, entry, all) ==
    LET this     == [name |-> entry.name, raw |-> entry.raw, loc |-> Loc(f, j, "lint")]
        matching == MatchingEntries(all, entry.name)
        existing == matching[1]
        others   == SelectSeq(matching, LAMBDA e : ~EntryEq(e, this))
        d0 == [Diag(j, "full", "multiple", WARNING,
                    <<"set more than once. Old value, new value", entry.name,
                      Fmt(EntryValue(existing.raw)), Fmt(EntryValue(entry.raw))>>)
               EXCEPT !.related = [i \in 1..Len(others) |->
                                      [file |-> others[i].loc.file,
                                       line |-> others[i].loc.line,
                                       msg |-> <<"Already set here",
                                                 Fmt(EntryValue(others[i].raw))>>]]]
    IN  IF Len(matching) > 1 /\ ~EntryEq(matching[1], this)
        THEN IF EntryValue(existing.raw) = EntryValue(entry.raw)
             THEN Hit(add_action([mark_unnecessary(d0) EXCEPT !.sev = HINT],
                                 remove(f, j, "Remove redundant entry")))
             ELSE Hit(d0)
        ELSE Miss

\* the body of the loop over a file's entries in lint, were the checks
\* run one after the other without "continue"
lint_entry_NoContinue(syms, all, f, j, entry, entries) ==
    IF entry.name \notin DOMAIN syms THEN Miss
    ELSE LET sym == syms[entry.name]
             r1  == check_undefined(f, j, entry, sym)
             r2  == check_type(f, j, entry, sym)
             r3  == check_assignment(f, j, entry, sym, entries)
             r4  == check_visibility(f, j, entry, sym)
             r5  == check_defaults(f, j, entry, sym)
             r6  == check_multiple_assignments(f, j, entry, all)
         IN  IF r3.exc
             THEN [ret |-> FALSE, add |-> r1.add \o r2.add, exc |-> TRUE]
             ELSE [ret |-> TRUE, exc |-> FALSE,
                   add |-> r1.add \o r2.add \o r3.add \o r4.add \o r5.add \o r6.add]

\* the body of the loop over a file's entries in lint, were
\* check_visibility run before check_assignment
lint_entry_VisibilityFirst(syms, all, f, j, entry, entries) ==
    IF entry.name \notin DOMAIN syms THEN Miss
    ELSE LET sym == syms[entry.name]
             r1  == check_undefined(f, j, entry, sym)
             r2  == check_type(f, j, entry, sym)
             r3  == check_assignment(f, j, entry, sym, entries)
             r4  == check_visibility(f, j, entry, sym)
             r5  == check_defaults(f, j, entry, sym)
             r6  == check_multiple_assignments(f, j, entry, all)
         IN  IF r1.ret THEN r1
             ELSE IF r2.ret THEN r2
             ELSE IF r4.ret THEN r4
             ELSE IF r3.ret \/ r3.exc THEN r3
             ELSE IF r5.ret THEN r5
             ELSE r6

\* the body of the loop over a file's entries in lint
lint_entry(syms, all, f, j, entry, entries) ==
    IF entry.name \notin DOMAIN syms THEN Miss
    ELSE LET sym == syms[entry.name]
             r1  == check_undefined(f, j, entry, sym)
             r2  == check_type(f, j, entry, sym)
             r3  == check_assignment(f, j, entry, sym, entries)
             r4  == check_visibility(f, j, entry, sym)
             r5  == check_defaults(f, j, entry, sym)
             r6  == check_multiple_assignments(f, j, entry, all)
         IN  IF r1.ret THEN r1
             ELSE IF r2.ret THEN r2
             ELSE IF r3.ret \/ r3.exc THEN r3
             ELSE IF r4.ret THEN r4
             ELSE IF r5.ret THEN r5
             ELSE r6

\* the loops of lint from entry j of file f on; diags are the files' diags
\* so far. An exception of a check ends the pass.
RECURSIVE lint_from(_, _, _, _, _, _)
lint_from(syms, files, all, diags, f, j) ==
    IF f > Len(files.conf) THEN [diags |-> diags, exc |-> FALSE]
    ELSE IF j > Len(files.conf[f]) THEN lint_from(syms, files, all, diags, f + 1, 1)
    ELSE LET r == lint_entry(syms, all, f, j, files.conf[f][j], files.conf[f])
             d == [diags EXCEPT ![f] = @ \o r.add]
         IN  IF r.exc THEN [diags |-> d, exc |-> TRUE]
             ELSE lint_from(syms, files, all, d, f, j + 1)

\* KconfigContext.lint, on files whose diags clear_diags has emptied
lint(syms, files) ==
    lint_from(syms, files, all_entries(files),
              [f \in 1..Len(files.conf) |-> <<>>], 1, 1)

----------------------------------------------------------------------------
(* TextDocument: the line array of a text buffer *)

\* text is a sequence of characters; NL is the line break
NL == "\n"

DocChars == {"a", NL}

\* longest text of a didOpen or of one content change
DocMaxText == 2

\* a change is not applied if the buffer's text would get longer than this
DocMaxLen == 4

\* positions a client sends: line in 0..DocMaxLine, character in 0..DocMaxCol
DocMaxLine == 2

DocMaxCol == 2

Texts == UNION {[1..k -> DocChars] : k \in 0..DocMaxText}

Position(line, character) == [line |-> line, character |-> character]

Positions == {Position(l, c) : l \in 0..DocMaxLine, c \in 0..DocMaxCol}

Range(start, end) == [start |-> start, end |-> end]

Min(a, b) == IF a <= b THEN a ELSE b

\* Python's s[i:j] for 0 <= i, j
Slice(s, i, j) == SubSeq(s, i + 1, Min(j, Len(s)))

\* str.splitlines: no empty last line after a final line break
RECURSIVE splitlines(_)
splitlines(t) ==
    IF t = <<>> THEN <<>>
    ELSE IF \E i \in 1..Len(t) : t[i] = NL
         THEN LET i == CHOOSE i \in 1..Len(t) :
                          t[i] = NL /\ \A j \in 1..(i - 1) : t[j] # NL
              IN  <<SubSeq(t, 1, i - 1)>> \o splitlines(SubSeq(t, i + 1, Len(t)))
         ELSE <<t>>

\* '\n'.join(lines)
RECURSIVE join(_)
join(ls) ==
    IF ls = <<>> THEN <<>>
    ELSE IF Len(ls) = 1 THEN ls[1]
    ELSE ls[1] \o <<NL>> \o join(Tail(ls))

\* TextDocument.text
text(ls) == join(ls) \o <<NL>>

\* TextDocument.line: None (here <<>>, which is as false as None) past the end
line(ls, index) == IF index < Len(ls) THEN ls[index + 1] ELSE <<>>

\* ''.join([l + '\n' for l in lines])
RECURSIVE flat(_)
flat(ls) == IF ls = <<>> THEN <<>> ELSE ls[1] \o <<NL>> \o flat(Tail(ls))

\* TextDocument.offset
offset(ls, p) ==
    IF p.line >= Len(ls) THEN Len(text(ls))
    ELSE LET character == Min(Len(ls[p.line + 1]) + 1, p.character)
         IN  Len(flat(SubSeq(ls, 1, p.line))) + character

\* TextDocument.pos
pos(ls, off) ==
    LET lines == splitlines(Slice(text(ls), 0, off))
    IN  IF Len(lines) = 0 THEN Position(0, 0)
        ELSE Position(Len(lines) - 1, Len(lines[Len(lines)]))

\* the text TextDocument.replace passes to _set_text; ranged: a range is given
replace_text(ls, t, ranged, range) ==
    IF ranged /\ Len(ls) > 0
    THEN Slice(text(ls), 0, offset(ls, range.start)) \o t
         \o Slice(text(ls), offset(ls, range.end), Len(text(ls)))
    ELSE t

\* TextDocument.replace, were the range ignored
replace_IgnoreRange(ls, t, ranged, range) == splitlines(t)

\* TextDocument.replace: the line array after _set_text
replace(ls, t, ranged, range) == splitlines(replace_text(ls, t, ranged, range))

\* 'CONFIG_'
CONFIG_ == <<"C", "O", "N", "F", "I", "G", "_">>

\* str.startswith
startswith(s, prefix) ==
    Len(prefix) <= Len(s) /\ SubSeq(s, 1, Len(prefix)) = prefix

\* _filter_match
_filter_match(filter, name) == startswith(name, filter)

\* str.lstrip
RECURSIVE lstrip(_)
lstrip(s) == IF s # <<>> /\ s[1] = " " THEN lstrip(Tail(s)) ELSE s

\* os.path.commonprefix of two strings
RECURSIVE commonprefix(_, _)
commonprefix(a, b) ==
    IF a # <<>> /\ b # <<>> /\ a[1] = b[1]
    THEN <<a[1]>> \o commonprefix(Tail(a), Tail(b))
    ELSE <<>>

\* the names of kconfig.syms
CompletionSyms ==
    {<<"B", "A", "R">>, <<"F", "O", "O">>, <<"C", "A", "N">>, <<"A", "N">>}

\* KconfigContext.symbols, were CONFIG_ left on the filter
symbols_NoStrip(syms, filter) ==
    {name \in syms : filter = <<>> \/ _filter_match(filter, name)}

\* KconfigContext.symbols; a filter of None is <<>>, as false as ''
symbols(syms, filter) ==
    LET flt == IF filter # <<>> /\ startswith(filter, CONFIG_)
               THEN Slice(filter, Len(CONFIG_), Len(filter)) ELSE filter
    IN  {name \in syms : flt = <<>> \/ _filter_match(flt, name)}

\* handle_completion from the line of the position on: the word the symbols
\* are filtered by, and whether symbols that are not visible are shown
completion_word(ls, p) ==
    LET word == lstrip(Slice(line(ls, p.line), 0, p.character))
        common == commonprefix(word, CONFIG_)
    IN  IF line(ls, p.line) # <<>> /\ Len(word) > 0
        THEN [word |-> IF Len(common) < Len(CONFIG_)
                       THEN CONFIG_ \o Slice(word, Len(common), Len(word))
                       ELSE word,
              show_non_visible |-> TRUE]
        ELSE [word |-> <<>>, show_non_visible |-> FALSE]

\* handle_completion: the response; visible: the symbols with visibility > 0
completion(ls, p, syms, visible) ==
    LET w == completion_word(ls, p)
    IN  [isIncomplete |-> ~w.show_non_visible,
         items |-> {sym \in symbols(syms, w.word) :
                       sym \in visible \/ w.show_non_visible}]

\* lines a user asks for completions on
CompletionTexts ==
    {CONFIG_ \o <<"B">>, <<" ", " ">>, <<"C", "A", "N">>}

\* completion is asked for at characters 0..CompletionMaxCol
CompletionMaxCol == 8

CompletionPositions ==
    {Position(l, c) : l \in 0..DocMaxLine, c \in 0..CompletionMaxCol}

\* the last operation on the buffer:
\*   op: "open", "change", "locate", "completion" or "none";
\*   ranged: the change had a range; full: the text last passed to _set_text;
\*   p, off, back: a position, its offset and the position of that offset;
\*   visible, rsp: the visible symbols and the response of a completion
NoDocOp ==
    [op |-> "none", ranged |-> FALSE, full |-> <<>>, p |-> Position(0, 0),
     off |-> 0, back |-> Position(0, 0), visible |-> {},
     rsp |-> [isIncomplete |-> FALSE, items |-> {}]]

InitDoc ==
    /\ doc = <<>>
    /\ docOp = NoDocOp

\* TextDocument.__init__ of a didOpen: _set_text if the text is not empty
DocOpen(t) ==
    /\ doc' = IF t # <<>> THEN splitlines(t) ELSE <<>>
    /\ docOp' = [NoDocOp EXCEPT !.op = "open", !.full = t]
    /\ UNCHANGED <<srvVars, lintVars, sideVars>>

\* LSPServer.handle_change, one content change
DocChange(t, ranged, range) ==
    /\ Len(replace_text(doc, t, ranged, range)) <= DocMaxLen
    /\ doc' = replace(doc, t, ranged, range)
    /\ docOp' = [NoDocOp EXCEPT !.op = "change", !.ranged = ranged,
                                !.full = replace_text(doc, t, ranged, range)]
    /\ UNCHANGED <<srvVars, lintVars, sideVars>>

\* offset of a position, and pos of that offset
DocLocate(p) ==
    /\ docOp' = [NoDocOp EXCEPT !.op = "locate", !.full = docOp.full, !.p = p,
                                !.off = offset(doc, p),
                                !.back = pos(doc, offset(doc, p))]
    /\ UNCHANGED <<srvVars, lintVars, sideVars, doc>>

\* KconfigServer.handle_completion on the buffer, once the session is
\* chosen and the buffer found
DocCompletion(p, visible) ==
    /\ docOp' = [NoDocOp EXCEPT !.op = "completion", !.full = docOp.full, !.p = p,
                                !.visible = visible,
                                !.rsp = completion(doc, p, CompletionSyms, visible)]
    /\ UNCHANGED <<srvVars, lintVars, sideVars, doc>>

NextDoc ==
    \/ \E t \in Texts : DocOpen(t)
    \/ \E t \in Texts, ranged \in BOOLEAN, s \in Positions, e \in Positions :
          DocChange(t, ranged, Range(s, e))
    \/ \E p \in Positions : DocLocate(p)

----------------------------------------------------------------------------
(* The process environment (os.environ) *)

\* variables an env map of kconfig/addBuild can hold; every map has
\* ZEPHYR_BASE, BOARD and ARCH, which KconfigContext reads from it
EnvKeys == {"ZEPHYR_BASE", "BOARD", "ARCH", "SOC_DIR", "DTS_ROOT"}

RequiredKeys == {"ZEPHYR_BASE", "BOARD", "ARCH"}

EnvValues == {"a", "b"}

\* a variable that is not set
Unset == "-"

\* the env maps of the builds; Unset: the map has no such key
EnvMaps ==
    {m \in [EnvKeys -> EnvValues \cup {Unset}] : \A k \in RequiredKeys : m[k] # Unset}

\* the environment the process was started with
StartEnviron == [k \in EnvKeys |-> IF k = "ZEPHYR_BASE" THEN "a" ELSE Unset]

\* KconfigContext.initialize_env: os.environ[key] = value for the items of
\* self.env
apply_env(env, m) == [k \in EnvKeys |-> IF m[k] # Unset THEN m[k] ELSE env[k]]

\* the last parse(): the env map of its session and the environment the
\* engine read
NoEnvOp == [op |-> "none", env |-> StartEnviron, seen |-> StartEnviron]

InitEnv ==
    /\ environ = StartEnviron
    /\ envOp = NoEnvOp


\* KconfigContext.parse of a session with this env map: initialize_env,
\* then the engine reads os.environ
EnvParse(m) ==
    /\ environ' = apply_env(environ, m)
    /\ envOp' = [op |-> "parse", env |-> m, seen |-> apply_env(environ, m)]
    /\ UNCHANGED <<srvVars, lintVars, docVars, rangeOp, storeVars, rpcVars>>

NextEnv == \E m \in EnvMaps : EnvParse(m)

----------------------------------------------------------------------------
(* Position and Range *)

\* Position.before
before(p, other) ==
    \/ p.line < other.line
    \/ (p.line = other.line /\ p.character < other.character)

\* Range.union
union(a, b) ==
    Range(IF before(a.start, b.start) THEN a.start ELSE b.start,
          IF before(a.end, b.end) THEN b.end ELSE b.end)

\* Range.contains of a Position
contains_pos(r, p) == ~before(p, r.start) /\ ~before(r.end, p)

\* Range.contains of a Range
contains(r, other) == contains_pos(r, other.start) /\ contains_pos(r, other.end)

\* the ranges that do not end before they start
Ranges == {r \in {Range(s, e) : s \in Positions, e \in Positions} : ~before(r.end, r.start)}

\* the last Range.union: its arguments and what it returned
NoRangeOp ==
    [op |-> "none", a |-> Range(Position(0, 0), Position(0, 0)),
     b |-> Range(Position(0, 0), Position(0, 0)),
     u |-> Range(Position(0, 0), Position(0, 0))]

InitRange == rangeOp = NoRangeOp

RangeUnion(a, b) ==
    /\ rangeOp' = [op |-> "union", a |-> a, b |-> b, u |-> union(a, b)]
    /\ UNCHANGED <<srvVars, lintVars, docVars, envVars, storeVars, rpcVars>>

NextRange == \E a \in Ranges, b \in Ranges : RangeUnion(a, b)

----------------------------------------------------------------------------
(* DocumentStore: the buffers of the server *)

StoreMaxVersion == 2

\* TextDocument.UNKNOWN_VERSION
UNKNOWN_VERSION == 0 - 1

\* the files of the store's resources that exist
StoreDisk == {"f1"}

\* the number of content changes one textDocument/didChange carries
StoreMaxChanges == 2

\* the languageId of a buffer that was not given one
None == "None"

\* no buffer (Python's None where a TextDocument is expected)
NoBuffer == [languageId |-> None, version |-> 0, modified |-> FALSE, text |-> "none"]

\* TextDocument.__init__.  text stands for the content: "open" what the
\* editor sent in didOpen, "disk" what was read from the file, "edit" what a
\* replace made of it
TextDocument(languageId, version, content) ==
    [languageId |-> languageId, version |-> version,
     modified |-> (version # 0), text |-> content]

\* DocumentStore.open
open(st, uri, d) == [st EXCEPT ![uri] = d]

\* DocumentStore.close
close(st, uri) == st

\* DocumentStore._from_disk of a file that exists
_from_disk(st, uri) ==
    LET d == TextDocument(None, UNKNOWN_VERSION, "disk")
    IN  [doc |-> d, store |-> open(st, uri, d)]

\* DocumentStore.get with the buffers themselves: the buffer returned (NoBuffer
\* if there is none) and the store after the call
store_get(st, uri, create) ==
    IF st[uri] # NoBuffer THEN [doc |-> st[uri], store |-> st]
    ELSE IF create /\ uri \in StoreDisk THEN _from_disk(st, uri)
    ELSE [doc |-> NoBuffer, store |-> st]

\* TextDocument.replace, were the modified flag left as it is
replace_flag_Keep(d) == [d EXCEPT !.text = "edit"]

\* TextDocument.replace, as far as the fields of the buffer go
replace_flag(d) == [d EXCEPT !.text = "edit", !.modified = TRUE]

\* the content changes of one didChange, applied in order
RECURSIVE replace_all(_, _)
replace_all(d, n) == IF n = 0 THEN d ELSE replace_all(replace_flag(d), n - 1)

\* the last message about a buffer: the resource, the number of content
\* changes and the version it carried, the store before it, and the buffer
\* a lookup returned
NoStoreOp ==
    [op |-> "none", uri |-> NoUri, n |-> 0, version |-> 0,
     before |-> [u \in ConfUris |-> NoBuffer], doc |-> NoBuffer]

InitStore ==
    /\ store = [u \in ConfUris |-> NoBuffer]
    /\ storeOp = NoStoreOp

\* LSPServer.handle_open
StoreOpen(uri, version) ==
    /\ store' = open(store, uri, TextDocument("kconfig", version, "open"))
    /\ storeOp' = [NoStoreOp EXCEPT !.op = "open", !.uri = uri,
                                    !.version = version, !.before = store]
    /\ UNCHANGED <<srvVars, lintVars, docVars, envVars, rangeOp, rpcVars>>

\* LSPServer.handle_change with n content changes
StoreChange(uri, n, version) ==
    LET g == store_get(store, uri, TRUE)
    IN  /\ store' = IF g.doc = NoBuffer THEN g.store
                    ELSE [g.store EXCEPT ![uri] =
                              [replace_all(g.doc, n) EXCEPT !.version = version]]
        /\ storeOp' = [NoStoreOp EXCEPT !.op = "change", !.uri = uri, !.n = n,
                                        !.version = version, !.before = store]
        /\ UNCHANGED <<srvVars, lintVars, docVars, envVars, rangeOp, rpcVars>>

\* LSPServer.handle_close
StoreClose(uri) ==
    /\ store' = close(store, uri)
    /\ storeOp' = [NoStoreOp EXCEPT !.op = "close", !.uri = uri, !.before = store]
    /\ UNCHANGED <<srvVars, lintVars, docVars, envVars, rangeOp, rpcVars>>

\* a lookup of the buffer of a resource, e.g. ConfFile.doc
StoreLookup(uri) ==
    LET g == store_get(store, uri, TRUE)
    IN  /\ store' = g.store
        /\ storeOp' = [NoStoreOp EXCEPT !.op = "get", !.uri = uri,
                                        !.before = store, !.doc = g.doc]
        /\ UNCHANGED <<srvVars, lintVars, docVars, envVars, rangeOp, rpcVars>>

NextStore ==
    \/ \E uri \in ConfUris, version \in 0..StoreMaxVersion : StoreOpen(uri, version)
    \/ \E uri \in ConfUris, n \in 0..StoreMaxChanges, version \in 0..StoreMaxVersion :
           StoreChange(uri, n, version)
    \/ \E uri \in ConfUris : StoreClose(uri)
    \/ \E uri \in ConfUris : StoreLookup(uri)

----------------------------------------------------------------------------
(* RPCServer: the dispatch loop *)

\* messages the loop reads in one run
RpcMaxMsgs == 3

\* notifications a handler sends before it returns or raises
RpcMaxPubs == 2

\* self._req when there is no request to answer
NoReq == 0

\* the messages _recv can find on the stream as the n-th message.  kind: a
\* request has "id" and "method", a response "id" only, a notification no
\* "id"; a request gets n as its id.  method: "handled" stands for the
\* registered methods other than shutdown, "unknown" for the others.
\* params: the object has "params".  pubs, raises: what the handler of
\* a "handled" method does with it: the notifications it sends, and whether
\* it then raises
RpcMessages(n) ==
    {[serial |-> n, kind |-> k, method |-> m, params |-> ps, pubs |-> np, raises |-> r] :
         k \in {"request", "notification", "response"},
         m \in {"handled", "shutdown", "unknown", "-"},
         ps \in BOOLEAN, np \in 0..RpcMaxPubs, r \in BOOLEAN}

\* the same, without the combinations that stand for nothing
Incoming(n) ==
    {m \in RpcMessages(n) :
        /\ (m.kind = "response") = (m.method = "-")
        /\ m.kind = "response" => m.params
        /\ m.method # "handled" => (m.pubs = 0 /\ ~m.raises)}

\* RPCResponse and RPCNotification as they are sent.  cause: the message
\* whose handler sent the notification
RPCResponse(id, code) == [type |-> "response", id |-> id, code |-> code, cause |-> 0]

RPCNotification(cause) == [type |-> "notification", id |-> NoReq, code |-> 0, cause |-> cause]

\* RPCServer.loop, were a message read whenever one is there
loop_ready_Eager(p) == p \in {"loop", "handling"}

\* RPCServer.loop: the next _recv is evaluated when handle has returned
loop_ready(p) == p = "loop"

\* LSPServer.handle_shutdown, were the flag left alone
handle_shutdown_Ignore(r) == r

\* LSPServer.handle_shutdown: self.running = False
handle_shutdown(r) == FALSE

\* RPCServer.rsp for the request in self._req, as handle calls it:
\* if self._req: self.rsp(result, error)
rsp(w, rq, code) == IF rq # NoReq THEN Append(w, RPCResponse(rq, code)) ELSE w

\* the message with this serial number
Msg(i) == readLog[i]

InitRpc ==
    /\ running = TRUE
    /\ _req = NoReq
    /\ rpcPc = "loop"
    /\ active = {}
    /\ wire = <<>>
    /\ readLog = <<>>

\* RPCServer.loop and _recv: the loop test holds and a message is read.
\* obj['params'] of an object without "params" raises KeyError, which leaves
\* the loop
RpcRecv(m) ==
    /\ loop_ready(rpcPc)
    /\ running
    /\ Len(readLog) < RpcMaxMsgs
    /\ m.serial = Len(readLog) + 1
    /\ readLog' = Append(readLog, m)
    /\ IF m.kind # "response" /\ ~m.params
       THEN /\ rpcPc' = "crashed"
            /\ UNCHANGED <<_req, active>>
       ELSE /\ rpcPc' = "handling"
            /\ _req' = IF m.kind = "request" THEN m.serial ELSE _req
            /\ active' = active \cup {[serial |-> m.serial, left |-> m.pubs]}
    /\ UNCHANGED <<running, wire>>
    /\ UNCHANGED <<srvVars, lintVars, docVars, envVars, rangeOp, storeVars>>

\* a handler sends a notification: RPCServer.notify
RpcNotify(a) ==
    /\ rpcPc = "handling"
    /\ a \in active
    /\ a.left > 0
    /\ wire' = Append(wire, RPCNotification(a.serial))
    /\ active' = (active \ {a}) \cup {[a EXCEPT !.left = a.left - 1]}
    /\ UNCHANGED <<running, _req, rpcPc, readLog>>
    /\ UNCHANGED <<srvVars, lintVars, docVars, envVars, rangeOp, storeVars>>

\* RPCServer.handle, a handler raises: both except clauses raise again, and
\* loop catches KeyboardInterrupt only
RpcRaise(a) ==
    /\ rpcPc = "handling"
    /\ a \in active
    /\ a.left = 0
    /\ Msg(a.serial).raises
    /\ rpcPc' = "crashed"
    /\ UNCHANGED <<running, _req, active, wire, readLog>>
    /\ UNCHANGED <<srvVars, lintVars, docVars, envVars, rangeOp, storeVars>>

\* RPCServer.handle from the return of the handler on: a response returns at
\* once; after the handler of a registered method the request in self._req
\* is answered with the result, after a method without handler with
\* METHOD_NOT_FOUND
RpcReturn(a) ==
    LET m == Msg(a.serial)
    IN  /\ rpcPc = "handling"
        /\ a \in active
        /\ a.left = 0
        /\ ~m.raises
        /\ running' = IF m.method = "shutdown" THEN handle_shutdown(running) ELSE running
        /\ wire' = IF m.kind = "response" THEN wire
                   ELSE rsp(wire, _req, IF m.method = "unknown" THEN METHOD_NOT_FOUND ELSE 0)
        /\ _req' = IF m.kind = "response" THEN _req ELSE NoReq
        /\ active' = active \ {a}
        /\ rpcPc' = "loop"
        /\ UNCHANGED readLog
        /\ UNCHANGED <<srvVars, lintVars, docVars, envVars, rangeOp, storeVars>>

\* RPCServer.loop: the loop test fails
RpcStop ==
    /\ rpcPc = "loop"
    /\ ~running
    /\ rpcPc' = "stopped"
    /\ UNCHANGED <<running, _req, active, wire, readLog>>
    /\ UNCHANGED <<srvVars, lintVars, docVars, envVars, rangeOp, storeVars>>

NextRpc ==
    \/ \E m \in Incoming(Len(readLog) + 1) : RpcRecv(m)
    \/ \E a \in active : RpcNotify(a)
    \/ \E a \in active : RpcRaise(a)
    \/ \E a \in active : RpcReturn(a)
    \/ RpcStop

InitSide ==
    /\ InitEnv
    /\ InitRange
    /\ InitStore
    /\ InitRpc

----------------------------------------------------------------------------
(* The server *)

NoOutcome == Outcome("none", 0, 0, <<>>)

\* the files that exist on disk: the board file and f1; f2 exists only as
\* an editor buffer, once the client has opened it
DiskFiles == {BoardUri, "f1"}

\* KconfigServer.__init__
InitServer ==
    /\ heap = [o \in ObjIds |-> FreeSlot]
    /\ ctx = <<>>
    /\ main_uri = NoUri
    /\ last_ctx = NoObj
    /\ docs = {}
    /\ disk = DiskFiles
    /\ pc = "loop"
    /\ last = NoOutcome

\* the server's runs carry no lint input: load_config takes the outcome of
\* the lint pass from LoadOutcomes
Init ==
    /\ InitServer
    /\ lintSyms = <<>>
    /\ lintFiles = [board |-> <<>>, conf |-> <<>>]
    /\ lintDiags = <<>>
    /\ lintRun = "none"
    /\ InitDoc
    /\ InitSide

\* the ids a client holds for the session registered under u
IdsFor(u) ==
    LET c == CtxGet(heap, ctx, u)
    IN  IF c = NoObj THEN {<<>>} ELSE ClientIds(heap[c])

\* One build, the engine free to do anything it can in parse(): the
\* lifecycle of a session and its node identity tokens
SessionLoadOutcomes == {"clean", "lint", "lint_raise"}

SessionEnv == Env(ParseOutcomes, SessionLoadOutcomes, Envs, 1, MaxVersion)

Next ==
    \/ \E conf \in ConfLists : handle_add_build("A", conf, SessionEnv)
    \/ handle_remove_build("A", SessionEnv)
    \/ handle_set_build("A", SessionEnv)
    \/ \E id \in IdsFor("A") : handle_set_menu("A", id, SessionEnv)
    \/ handle_search("A", SessionEnv)
    \/ \E name \in SetNames, given \in BOOLEAN, accepted \in BOOLEAN :
          handle_setval("A", name, given, accepted, SessionEnv)
    \/ \E found \in BOOLEAN : handle_hover("f1", found, SessionEnv)
    \/ \E found \in BOOLEAN : handle_definition("f1", found, SessionEnv)
    \/ handle_completion("f1", SessionEnv)
    \/ handle_code_action("f1", SessionEnv)
    \/ handle_change("f1", SessionEnv)
    \/ \E chs \in ChangeLists : handle_changed_watched_files(chs, SessionEnv)

Spec == Init /\ [][Next]_vars

\* Several builds, the engine evaluating tree 1: the router
RouterParseOutcomes == {[res |-> "ok", tree |-> 1]}

RouterLoadOutcomes == {"clean"}

\* the router's runs parse a session once
RouterMaxVersion == 1

RouterEnv == Env(RouterParseOutcomes, RouterLoadOutcomes, {"full"}, MaxObjs, RouterMaxVersion)

NextRouter ==
    \/ \E u \in CtxUris, conf \in ConfLists : handle_add_build(u, conf, RouterEnv)
    \/ \E u \in CtxUris : handle_remove_build(u, RouterEnv)
    \/ \E u \in CtxUris : handle_set_build(u, RouterEnv)
    \/ \E f \in Resources, found \in BOOLEAN : handle_hover(f, found, RouterEnv)
    \/ \E f \in Resources : handle_completion(f, RouterEnv)
    \/ \E f \in Resources : handle_code_action(f, RouterEnv)
    \/ \E f \in Resources : handle_doc_symbols(f, RouterEnv)
    \/ \E f \in ConfUris : handle_open(f, RouterEnv)
    \/ \E f \in Resources : handle_change(f, RouterEnv)
    \/ \E chs \in ChangeLists : handle_changed_watched_files(chs, RouterEnv)

SpecRouter == Init /\ [][NextRouter]_vars

----------------------------------------------------------------------------
(* The lint pass on its own *)

\* entries of a conf file
LintMaxEntries == 2

\* the entries the conf files hold: FOO, BAR and BAZ are in the engine's
\* symbol table, QUX is not
LintEntries ==
    {Entry("FOO", "y"), Entry("FOO", "n"), Entry("FOO", "16"), Entry("FOO", "0x10"),
     Entry("BAR", "n"), Entry("QUX", "y")}

\* the first conf file
LintConfs == UNION {[1..n -> LintEntries] : n \in 1..LintMaxEntries}

\* a second conf file, if there is one
LintSecondConfs == {<<>>, <<<<Entry("FOO", "y")>>>>}

\* the board's conf file
LintBoards == {<<>>, <<Entry("FOO", "y")>>}

\* a session whose symbol table and files are any of the above, before
\* refresh_ctx has run load_config
InitLint ==
    /\ InitServer
    /\ \E sym \in Symbols :
          lintSyms = [n \in {"FOO", "BAR", "BAZ"} |-> IF n = "FOO" THEN sym ELSE OffSym]
    /\ lintFiles \in {[board |-> b, conf |-> <<c>> \o c2] :
                        b \in LintBoards, c \in LintConfs, c2 \in LintSecondConfs}
    /\ lintDiags = [f \in 1..Len(lintFiles.conf) |-> <<>>]
    /\ lintRun = "none"
    /\ InitDoc
    /\ InitSide

\* clear_diags and the lint pass of load_config, as refresh_ctx runs them
LintPass ==
    /\ LET r == lint(lintSyms, lintFiles)
       IN  /\ lintDiags' = r.diags
           /\ lintRun' = IF r.exc THEN "raised" ELSE "done"
    /\ UNCHANGED <<srvVars, docVars, sideVars, lintSyms, lintFiles>>

NextLint == LintPass

SpecLint == InitLint /\ [][NextLint]_vars

----------------------------------------------------------------------------
----------------------------------------------------------------------------
(* A text buffer on its own *)

SpecDoc == Init /\ [][NextDoc]_vars

\* a buffer a didOpen has brought, with one of the lines to complete or
\* with another text
InitCompletion ==
    /\ InitServer
    /\ lintSyms = <<>>
    /\ lintFiles = [board |-> <<>>, conf |-> <<>>]
    /\ lintDiags = <<>>
    /\ lintRun = "none"
    /\ \E t \in Texts \cup CompletionTexts :
          /\ doc = splitlines(t)
          /\ docOp = [NoDocOp EXCEPT !.op = "open", !.full = t]
    /\ InitSide

NextCompletion ==
    \E p \in CompletionPositions, visible \in SUBSET CompletionSyms :
        DocCompletion(p, visible)

SpecCompletion == InitCompletion /\ [][NextCompletion]_vars

----------------------------------------------------------------------------
(* The process environment on its own *)

SpecEnv == Init /\ [][NextEnv]_vars

----------------------------------------------------------------------------
(* Range.union on its own *)

SpecRange == Init /\ [][NextRange]_vars

----------------------------------------------------------------------------
(* The document store on its own *)

SpecStore == Init /\ [][NextStore]_vars

----------------------------------------------------------------------------
(* The dispatch loop on its own *)

SpecRpc == Init /\ [][NextRpc]_vars

----------------------------------------------------------------------------

(* Claims: requests naming a build *)

\* a kconfig/search, kconfig/setMenu or kconfig/setVal step for the build u
NamesBuild(u) ==
    \/ handle_search(u, SessionEnv)
    \/ \E id \in IdsFor(u) : handle_set_menu(u, id, SessionEnv)
    \/ \E name \in SetNames, given \in BOOLEAN, accepted \in BOOLEAN :
          handle_setval(u, name, given, accepted, SessionEnv)

\* C21. Unknown context: a kconfig/search, kconfig/setMenu or kconfig/setVal
\* request whose ctx names no registered build is answered with an error
\* response, and the server loop goes on to the next message.
C21_UnknownCtxAnswered ==
    [][\A u \in CtxUris :
          (CtxGet(heap, ctx, u) = NoObj /\ NamesBuild(u)) =>
              (last'.rsp = "error" /\ pc' = "loop")]_vars

\* C26. kconfig/setVal on a registered build and a symbol the engine knows
\* sets the value if the request has one and unsets it if not; it completes
\* with a normal response in both cases, also when the engine accepts the
\* value, and changes neither the override buffers nor any diagnostics.
C26_SetValAnsweredNoEffect ==
    [][\A name \in SetNames, given \in BOOLEAN, accepted \in BOOLEAN :
          ( /\ CtxGet(heap, ctx, "A") # NoObj
            /\ get(heap[CtxGet(heap, ctx, "A")], name)
            /\ handle_setval("A", name, given, accepted, SessionEnv) ) =>
              /\ last'.rsp = "null"
              /\ pc' = "loop"
              /\ docs' = docs
              /\ heap' = heap]_vars

(* Claims: node identity tokens *)

\* the sessions in the registry
Registered == SeqRange(ctx)

\* C1 (as claimed). Version gating: a token that _node_id produced for a
\* node of the evaluation before the last parse() (the session's version was
\* one less then) does not resolve: find_node, and get_menu which
\* kconfig/setMenu answers with, fail with the Desync error (code 2).
C1_StaleTokenIsDesync ==
    \A o \in Registered : \A id \in IssuedBefore(heap[o]) :
        /\ find_node(heap[o], id) = Raised("RPCError", DESYNC)
        /\ get_menu(heap[o], id) = Raised("RPCError", DESYNC)

\* C2 (as claimed). Round trip within one generation: for every node of a
\* session's current evaluation, of every kind, _node_id gives a token and
\* find_node resolves that token to the same node.
C2_TokenRoundTrip ==
    \A o \in Registered : \A n \in TreeNodes(heap[o].kconfig.tree) :
        /\ _node_id(heap[o], n).kind = "id"
        /\ find_node(heap[o], _node_id(heap[o], n).id) = Found(n)

----------------------------------------------------------------------------
(* Claims: session lifecycle *)

\* the KconfigContext objects that exist after a step
Alive(h) == {o \in ObjIds : h[o].uri # NoUri}

\* C3 (as claimed). Every parse() call adds exactly 1 to the session's
\* version, however it ends, and nothing else changes a version: in every
\* step each session's version stays or grows by 1, and the sessions whose
\* version grew are as many as the parse() calls the handler made.
C3_ParseBumpsVersion ==
    [][/\ \A o \in Alive(heap') :
              heap'[o].version \in {heap[o].version, heap[o].version + 1}
       /\ Cardinality({o \in Alive(heap') : heap'[o].version = heap[o].version + 1})
              = last'.nparse]_vars

Fields(s) ==
    [uri |-> s.uri, conf |-> s.conf, env |-> s.env, board |-> s.board,
     version |-> s.version, kconfig |-> s.kconfig, menu |-> s.menu, cmd_diags |-> s.cmd_diags,
     kconfig_diags |-> s.kconfig_diags, fdiags |-> s.fdiags]

\* C5. invalidate() leaves the session not valid and changes nothing else:
\* not the version, the evaluation object, the menu or a diagnostics
\* bucket; on a session that was never parsed it changes nothing.
C5_InvalidateFrame ==
    \A o \in Alive(heap) :
        LET s == heap[o]
            t == invalidate(s)
        IN  /\ ~Valid(t)
            /\ Fields(t) = Fields([s EXCEPT !.kconfig.valid = FALSE])
            /\ s.kconfig.st = "none" => Fields(t) = Fields(s)

\* invalidate() was called on a session that holds diagnostics in all
\* three buckets
C5_Witness ==
    \E o \in Registered :
        /\ heap[o].inval
        /\ heap[o].cmd_diags # <<>>
        /\ heap[o].kconfig_diags # <<>>
        /\ \E i \in 1..Len(heap[o].conf) : heap[o].fdiags[i] # <<>>

----------------------------------------------------------------------------
(* Claims: watched files *)

\* the step handled a request that best_ctx routed for resource f (hover,
\* definition, completion, codeAction or documentSymbol: the handlers that
\* record the resource in their outcome)
Routed(f) == last'.uri = f /\ last'.via # ""

\* the session the router gives a request about resource f
Route(f) == best_ctx(heap, ctx, main_uri, last_ctx, f, Avail(docs, disk))

\* the sessions a watched-file change is about: every registered one for a
\* Kconfig file, the one registered under the build for its edt.pickle
Matching(ch) ==
    CASE ch.base = "Kconfig" -> Registered
      [] ch.base = "edt.pickle" -> {o \in Registered : heap[o].uri = ch.build}
      [] OTHER -> {}

\* C6. A workspace/didChangeWatchedFiles notification only invalidates: the
\* handler parses nothing, publishes nothing, sends no response, leaves every
\* version as it is and changes nothing of a session but its validity; the
\* matching sessions are not valid after it. The next hover, definition,
\* completion or codeAction request routed to a session that is not valid
\* parses it exactly once (its version grows by 1); routed to a valid
\* session it parses nothing.
C6_WatchedFilesOnlyInvalidate ==
    [][/\ \A chs \in ChangeLists :
              handle_changed_watched_files(chs, SessionEnv) =>
                  /\ last'.nparse = 0 /\ last'.pubs = <<>> /\ last'.rsp = "none"
                  /\ \A o \in Alive(heap) :
                         /\ heap'[o].version = heap[o].version
                         /\ Fields(heap'[o]) \in
                                {Fields(heap[o]),
                                 Fields([heap[o] EXCEPT !.kconfig.valid = FALSE])}
                  /\ \A i \in 1..Len(chs) : \A o \in Matching(chs[i]) :
                         ~Valid(heap'[o])
       /\ Routed("f1") =>
              LET o == Route("f1").ret
              IN  o # NoObj =>
                     /\ last'.nparse = IF Valid(heap[o]) THEN 0 ELSE 1
                     /\ heap'[o].version = heap[o].version + last'.nparse]_vars

\* a session that was valid, was invalidated by a watched-file change and
\* parsed again by the request routed to it afterwards
C6_Witness ==
    \E o \in Registered :
        /\ heap[o].version = 2
        /\ TreeHasSyms(heap[o].prev)
        /\ ~heap[o].inval
        /\ last.uri = "f1" /\ last.nparse = 1 /\ last.rsp = "value"

----------------------------------------------------------------------------
(* Claims: the router *)

\* the session registered under main_uri, NoObj if there is none
Active == IF main_uri # NoUri THEN CtxGet(heap, ctx, main_uri) ELSE NoObj

\* session o claims resource f: has_file says so
Claims(o, f) == o # NoObj /\ has_file(heap[o], f, Avail(docs, disk))

\* a routed request leaves the registered sessions other than o alone
OthersUntouched(o) ==
    \A q \in Registered \ {o} : heap'[q] = heap[q]

----------------------------------------------------------------------------
(* Claims: lint *)

\* the diagnostics that file f holds for its entry at line j
DiagsOn(f, j) == {k \in 1..Len(lintDiags[f]) : lintDiags[f][k].line = j}

\* C10. Lint exclusivity: after a lint pass, ended or raised, every entry
\* of every conf file holds at most one diagnostic from the six checks,
\* also when it meets the conditions of two or more checks.
C10_LintExclusive ==
    lintRun # "none" =>
        \A f \in 1..Len(lintFiles.conf) : \A j \in 1..Len(lintFiles.conf[f]) :
            Cardinality(DiagsOn(f, j)) <= 1

\* the pass ended, and the second entry of the first conf file, a type
\* mismatch on a symbol without a prompt that is assigned twice, holds
\* exactly one diagnostic
C10_Witness ==
    /\ lintRun = "done"
    /\ Len(lintFiles.conf[1]) = 2
    /\ LET e == lintFiles.conf[1][2]
           a == all_entries(lintFiles)
       IN  /\ e.name \in DOMAIN lintSyms
           /\ check_type(1, 2, e, lintSyms[e.name]).ret
           /\ check_visibility(1, 2, e, lintSyms[e.name]).ret
           /\ check_multiple_assignments(1, 2, e, a).ret
    /\ Cardinality(DiagsOn(1, 2)) = 1

\* what each of the six checks does on entry j of conf file f, in the
\* order in which lint calls them
CheckResults(f, j) ==
    LET e   == lintFiles.conf[f][j]
        sym == lintSyms[e.name]
    IN  <<check_undefined(f, j, e, sym),
          check_type(f, j, e, sym),
          check_assignment(f, j, e, sym, lintFiles.conf[f]),
          check_visibility(f, j, e, sym),
          check_defaults(f, j, e, sym),
          check_multiple_assignments(f, j, e, all_entries(lintFiles))>>

\* the entries of the conf files whose name the symbol table holds
Linted ==
    {fj \in (1..Len(lintFiles.conf)) \X (1..LintMaxEntries) :
        /\ fj[2] <= Len(lintFiles.conf[fj[1]])
        /\ lintFiles.conf[fj[1]][fj[2]].name \in DOMAIN lintSyms}

\* C11. Lint priority: a diagnostic an entry holds after a lint pass is
\* the one of a check that produces a diagnostic for it while every check
\* before it, in the order undefined, type, assignment, visibility,
\* defaults, multiple, produces none; and after a pass that ended, an entry
\* for which some check produces a diagnostic holds one.
C11_LintPriority ==
    lintRun # "none" =>
        \A fj \in Linted :
            LET r == CheckResults(fj[1], fj[2])
            IN  /\ \A k \in DiagsOn(fj[1], fj[2]) :
                    \E c \in 1..6 :
                        /\ r[c].add = <<lintDiags[fj[1]][k]>>
                        /\ \A b \in 1..(c - 1) : r[b].add = <<>>
                /\ (lintRun = "done" /\ \E c \in 1..6 : r[c].add # <<>>)
                        => DiagsOn(fj[1], fj[2]) # {}

\* the pass ended, and an entry for which both check_assignment and
\* check_visibility produce a diagnostic holds the one of check_assignment
C11_Witness ==
    /\ lintRun = "done"
    /\ \E fj \in Linted :
          LET r == CheckResults(fj[1], fj[2])
          IN  /\ r[3].ret /\ r[4].ret
              /\ \E k \in DiagsOn(fj[1], fj[2]) :
                    lintDiags[fj[1]][k].check = "assignment"

\* entry j of conf file f is CONFIG_FOO=y, FOO is a bool that the conf
\* files set to y and that is n because its only missing dependency is the
\* bool BAR, and the file has no entry for BAR
MissingDepScenario(f, j) ==
    /\ f \in 1..Len(lintFiles.conf)
    /\ j \in 1..Len(lintFiles.conf[f])
    /\ lintFiles.conf[f][j] = Entry("FOO", "y")
    /\ lintSyms["FOO"].type = "BOOL"
    /\ lintSyms["FOO"].user = "tri2"
    /\ lintSyms["FOO"].str = "n"
    /\ lintSyms["FOO"].deps = <<Dep("BAR", TRUE)>>
    /\ \A k \in 1..Len(lintFiles.conf[f]) : lintFiles.conf[f][k].name # "BAR"

\* the diagnostic of the scenario but for its actions: a Warning on the
\* entry's name whose message lists BAR as the missing dependency
MissingDepWarning(d) ==
    /\ d.sev = WARNING
    /\ d.range = "name"
    /\ d.tags = <<>>
    /\ d.msg = <<"was assigned the value, but got the value", "FOO", "y", "n",
                 "Missing dependencies:", "BAR">>

\* the edit that puts CONFIG_BAR=y on a line of its own before line j
InsertBar(f, j) == Edit(f, j, "line_start", "CONFIG_BAR=y\n")

\* C12 as claimed. Missing-dependency scenario: after the lint pass the
\* entry of the scenario holds one diagnostic, the Warning listing BAR, and
\* that diagnostic carries a single code action, whose one edit inserts
\* CONFIG_BAR=y at column 0 of the entry's line.
C12_SingleAction ==
    lintRun # "none" =>
        \A f \in 1..Len(lintFiles.conf) : \A j \in 1..LintMaxEntries :
            MissingDepScenario(f, j) =>
                /\ Cardinality(DiagsOn(f, j)) = 1
                /\ \A k \in DiagsOn(f, j) :
                      /\ MissingDepWarning(lintDiags[f][k])
                      /\ Len(lintDiags[f][k].actions) = 1
                      /\ lintDiags[f][k].actions[1].edits = <<InsertBar(f, j)>>

\* C12 as the code has it. Missing-dependency scenario: after the lint
\* pass the entry of the scenario holds one diagnostic, the Warning listing
\* BAR, and that diagnostic carries two code actions: first "Enable
\* CONFIG_BAR to resolve dependency", whose one edit inserts CONFIG_BAR=y
\* at column 0 of the entry's line, then "Remove entry", which removes the
\* entry's line.
C12_EnableThenRemove ==
    lintRun # "none" =>
        \A f \in 1..Len(lintFiles.conf) : \A j \in 1..LintMaxEntries :
            MissingDepScenario(f, j) =>
                /\ Cardinality(DiagsOn(f, j)) = 1
                /\ \A k \in DiagsOn(f, j) :
                      /\ MissingDepWarning(lintDiags[f][k])
                      /\ lintDiags[f][k].actions =
                            <<[title |-> "Enable CONFIG_BAR to resolve dependency",
                               edits |-> <<InsertBar(f, j)>>],
                              [title |-> "Remove entry",
                               edits |-> <<Edit(f, j, "line", "")>>]>>

\* the pass ended on a conf file whose second entry is the one of the
\* scenario, and that entry holds a diagnostic with an action
C12_Witness ==
    /\ lintRun = "done"
    /\ MissingDepScenario(1, 2)
    /\ \E k \in DiagsOn(1, 2) : lintDiags[1][k].actions # <<>>

\* the edit that enables the bool dependency named dep for the entry on
\* line j of conf file f: on the value of the first entry of that file for
\* dep if it has one, else a new line at column 0 of line j
EnableEdit(f, j, dep) ==
    LET lines == {k \in 1..Len(lintFiles.conf[f]) : lintFiles.conf[f][k].name = dep}
    IN  IF lines # {}
        THEN [file |-> f, line |-> CHOOSE k \in lines : \A i \in lines : k <= i,
              at |-> "value", text |-> "y"]
        ELSE [file |-> f, line |-> j, at |-> "line_start",
              text |-> "CONFIG_" \o dep \o "=y\n"]

\* the missing dependencies of a symbol that are bool symbols, in the
\* order of their discovery
BoolDeps(sym) == SelectSeq(sym.deps, LAMBDA x : x.bool)

\* C13. Dependency fix actions: a diagnostic of check_assignment on entry
\* j of file f carries, for one missing bool dependency, an action with
\* the one edit that enables it (on its entry's value if the file has one,
\* else inserting CONFIG_<dep>=y at the start of line j); for several, one
\* action with their edits in the reverse of the order of discovery; and
\* after that, always, the action that removes the entry's line, and no
\* other action.
C13_DependencyFixActions ==
    lintRun # "none" =>
        \A fj \in Linted : \A k \in DiagsOn(fj[1], fj[2]) :
            LET f == fj[1]
                j == fj[2]
                d == lintDiags[f][k]
                b == BoolDeps(lintSyms[lintFiles.conf[f][j].name])
                n == Len(b)
                rm == [title |-> "Remove entry",
                       edits |-> <<[file |-> f, line |-> j, at |-> "line", text |-> ""]>>]
            IN  d.check = "assignment" =>
                  /\ n = 0 => d.actions = <<rm>>
                  /\ n = 1 =>
                        /\ Len(d.actions) = 2
                        /\ d.actions[1].edits = <<EnableEdit(f, j, b[1].name)>>
                        /\ d.actions[2] = rm
                  /\ n > 1 =>
                        /\ Len(d.actions) = 2
                        /\ d.actions[1].edits =
                              [i \in 1..n |-> EnableEdit(f, j, b[n + 1 - i].name)]
                        /\ d.actions[2] = rm

\* the pass ended, and the second entry of the first conf file, below an
\* entry for BAR, holds a diagnostic whose first action inserts
\* CONFIG_BAZ=y before the entry and then sets the value of BAR's entry
C13_Witness ==
    /\ lintRun = "done"
    /\ Len(lintFiles.conf[1]) = 2
    /\ lintFiles.conf[1][1].name = "BAR"
    /\ \E k \in DiagsOn(1, 2) :
          /\ Len(lintDiags[1][k].actions) = 2
          /\ lintDiags[1][k].actions[1].edits =
                <<[file |-> 1, line |-> 2, at |-> "line_start", text |-> "CONFIG_BAZ=y\n"],
                  [file |-> 1, line |-> 1, at |-> "value", text |-> "y"]>>

\* the entries for a name in the cross-file list: the board's, then those
\* of the conf files in list order
Occurrences(name) == MatchingEntries(all_entries(lintFiles), name)

\* entry j of conf file f is the first of the cross-file list for its name
IsFirst(f, j) ==
    LET first == Occurrences(lintFiles.conf[f][j].name)[1]
    IN  first.loc.file = f /\ first.loc.line = j

\* none of the five checks before check_multiple_assignments produces a
\* diagnostic for entry j of conf file f
NoEarlierCheck(f, j) ==
    \A c \in 1..5 : CheckResults(f, j)[c] = Miss

\* C14. Duplicate detection by content: after a lint pass that ended, an
\* entry that is not the first for its name, and for which no earlier
\* check fires, holds one diagnostic: a Hint tagged unnecessary with the
\* action "Remove redundant entry" if its literal value (raw) is that of
\* the first occurrence, otherwise a Warning whose message names the first
\* occurrence's value and this entry's; either way with a related location
\* for every occurrence.
C14_DuplicateByLiteral ==
    lintRun = "done" =>
        \A fj \in Linted :
            LET f == fj[1]
                j == fj[2]
                e == lintFiles.conf[f][j]
                occ == Occurrences(e.name)
            IN  (~IsFirst(f, j) /\ NoEarlierCheck(f, j)) =>
                  /\ Cardinality(DiagsOn(f, j)) = 1
                  /\ \A k \in DiagsOn(f, j) :
                        LET d == lintDiags[f][k]
                        IN  /\ d.msg = <<"set more than once. Old value, new value",
                                         e.name, Fmt(EntryValue(occ[1].raw)),
                                         Fmt(EntryValue(e.raw))>>
                            /\ Len(d.related) = Len(occ)
                            /\ \A i \in 1..Len(occ) :
                                  /\ d.related[i].file = occ[i].loc.file
                                  /\ d.related[i].line = occ[i].loc.line
                            /\ IF e.raw = occ[1].raw
                               THEN /\ d.sev = HINT
                                    /\ d.tags = <<"UNNECESSARY">>
                                    /\ d.actions =
                                          <<[title |-> "Remove redundant entry",
                                             edits |-> <<[file |-> f, line |-> j,
                                                          at |-> "line", text |-> ""]>>]>>
                               ELSE /\ d.sev = WARNING
                                    /\ d.tags = <<>>
                                    /\ d.actions = <<>>

\* C15. The duplicate check fires only on non-first occurrences: after a
\* lint pass the first entry for a name in the cross-file list (the
\* board's entries, then the conf files' in list order) holds no "set more
\* than once" diagnostic, and neither does an entry whose name occurs once.
C15_FirstNeverDuplicate ==
    lintRun # "none" =>
        \A fj \in Linted :
            LET f == fj[1]
                j == fj[2]
            IN  (IsFirst(f, j) \/ Len(Occurrences(lintFiles.conf[f][j].name)) = 1) =>
                    \A k \in DiagsOn(f, j) : lintDiags[f][k].check # "multiple"

\* C16. Redundant default: after a lint pass that ended, an entry of a
\* symbol of any type whose value in effect (str_value) is the symbol's
\* computed default, and for which none of the four checks before
\* check_defaults fires, holds one diagnostic: a Hint tagged unnecessary
\* whose one action removes the entry's line.
C16_RedundantDefault ==
    lintRun = "done" =>
        \A fj \in Linted :
            LET f == fj[1]
                j == fj[2]
                sym == lintSyms[lintFiles.conf[f][j].name]
            IN  (sym.str = sym.dflt /\ \A c \in 1..4 : CheckResults(f, j)[c] = Miss) =>
                  /\ Cardinality(DiagsOn(f, j)) = 1
                  /\ \A k \in DiagsOn(f, j) :
                        /\ lintDiags[f][k].check = "defaults"
                        /\ lintDiags[f][k].sev = HINT
                        /\ lintDiags[f][k].tags = <<"UNNECESSARY">>
                        /\ Len(lintDiags[f][k].actions) = 1
                        /\ lintDiags[f][k].actions[1].edits =
                              <<[file |-> f, line |-> j, at |-> "line", text |-> ""]>>

\* the value the conf files asked for, as check_assignment reads it: the
\* user value, for a bool through TRI_TO_STR
Requested(sym) == IF sym.type = "BOOL" THEN TRI_TO_STR(sym.user) ELSE sym.user

\* neither check_undefined nor check_type produces a diagnostic for entry
\* j of conf file f
TypeChecksPass(f, j) == \A c \in 1..2 : CheckResults(f, j)[c] = Miss

\* C27. Assignment not honored is always reported: after a lint pass that
\* ended, an entry for which check_undefined and check_type do not fire
\* and whose symbol has a value in effect (str_value) other than the one
\* asked for holds a Warning of check_assignment, also when the symbol has
\* no missing dependency.
C27_NotHonoredReported ==
    lintRun = "done" =>
        \A fj \in Linted :
            LET sym == lintSyms[lintFiles.conf[fj[1]][fj[2]].name]
            IN  (TypeChecksPass(fj[1], fj[2]) /\ Requested(sym) # sym.str) =>
                    \E k \in DiagsOn(fj[1], fj[2]) :
                        /\ lintDiags[fj[1]][k].check = "assignment"
                        /\ lintDiags[fj[1]][k].sev = WARNING

\* C28. The "already disabled" finding: after a lint pass that ended, an
\* entry for which check_undefined and check_type do not fire and whose
\* symbol has the value asked for in effect, that value not being y, holds
\* one diagnostic: a Hint on the entry's name whose message is "was already
\* disabled." with no text on missing dependencies, and with no code
\* action, whether the symbol has missing dependencies or not.
C28_AlreadyDisabledHint ==
    lintRun = "done" =>
        \A fj \in Linted :
            LET sym == lintSyms[lintFiles.conf[fj[1]][fj[2]].name]
            IN  (TypeChecksPass(fj[1], fj[2]) /\ Requested(sym) = sym.str
                    /\ sym.str # "y") =>
                    /\ Cardinality(DiagsOn(fj[1], fj[2])) = 1
                    /\ \A k \in DiagsOn(fj[1], fj[2]) :
                          /\ lintDiags[fj[1]][k].check = "assignment"
                          /\ lintDiags[fj[1]][k].sev = HINT
                          /\ lintDiags[fj[1]][k].msg =
                                <<"was already disabled.",
                                  lintFiles.conf[fj[1]][fj[2]].name>>
                          /\ lintDiags[fj[1]][k].actions = <<>>

\* C29. Undefined check: after a lint pass that ended, an entry that names
\* a symbol the evaluation does not define, be it in the symbol table
\* without a type or not in the table at all, holds one diagnostic: the
\* Error "Undefined symbol" with no code action.
C29_UndefinedIsError ==
    lintRun = "done" =>
        \A f \in 1..Len(lintFiles.conf) : \A j \in 1..Len(lintFiles.conf[f]) :
            LET name == lintFiles.conf[f][j].name
            IN  (name \notin DOMAIN lintSyms \/ lintSyms[name].type = "UNKNOWN") =>
                    /\ Cardinality(DiagsOn(f, j)) = 1
                    /\ \A k \in DiagsOn(f, j) :
                          /\ lintDiags[f][k].sev = ERROR
                          /\ lintDiags[f][k].msg = <<"Undefined symbol", name>>
                          /\ lintDiags[f][k].actions = <<>>

\* C29 as the code has it. Undefined check: after a lint pass that ended,
\* an entry whose name is in the evaluation's symbol table for a symbol
\* that no Kconfig file defines (its type is unknown) holds one diagnostic:
\* the Error "Undefined symbol" on the whole entry with no code action, no
\* tag and no related location; an entry whose name is not in the symbol
\* table at all holds no diagnostic of the lint pass.
C29_UndefinedInTableIsError ==
    lintRun = "done" =>
        \A f \in 1..Len(lintFiles.conf) : \A j \in 1..Len(lintFiles.conf[f]) :
            LET name == lintFiles.conf[f][j].name
            IN  /\ name \notin DOMAIN lintSyms => DiagsOn(f, j) = {}
                /\ (name \in DOMAIN lintSyms /\ lintSyms[name].type = "UNKNOWN") =>
                      /\ Cardinality(DiagsOn(f, j)) = 1
                      /\ \A k \in DiagsOn(f, j) :
                            /\ lintDiags[f][k].sev = ERROR
                            /\ lintDiags[f][k].range = "full"
                            /\ lintDiags[f][k].msg = <<"Undefined symbol", name>>
                            /\ lintDiags[f][k].actions = <<>>
                            /\ lintDiags[f][k].tags = <<>>
                            /\ lintDiags[f][k].related = <<>>

\* the pass ended on a conf file that names first a symbol that is not in
\* the symbol table, then one that is in it without a definition: the
\* second entry holds the Error, the first nothing
C29_Witness ==
    /\ lintRun = "done"
    /\ Len(lintFiles.conf[1]) = 2
    /\ lintFiles.conf[1][1].name \notin DOMAIN lintSyms
    /\ lintFiles.conf[1][2].name \in DOMAIN lintSyms
    /\ lintSyms[lintFiles.conf[1][2].name].type = "UNKNOWN"
    /\ Len(lintDiags[1]) = 1
    /\ lintDiags[1][1].line = 2
    /\ lintDiags[1][1].check = "undefined"

----------------------------------------------------------------------------
(* Claims: diagnostics of a refresh pass *)

\* the three diagnostics buckets of a session: the command-level one, the
\* evaluation-level one, and the list of every conf file
Buckets(s) == <<s.cmd_diags, s.kconfig_diags, s.fdiags>>

\* a session with its three buckets emptied
Emptied(s) ==
    [s EXCEPT !.cmd_diags = <<>>, !.kconfig_diags = <<>>,
              !.fdiags = [i \in 1..Len(s.conf) |-> <<>>]]

\* this step ran refresh_ctx (on the session that is last_ctx afterwards):
\* it published, or it ended in the exception of parse()
Refreshed == last'.pubs # <<>> \/ (last'.rsp = "crash" /\ last'.nparse = 1)

\* the session refresh_ctx started from in this step: the one in the slot,
\* or the new one that addBuild made
BeforeRefresh ==
    IF heap[last_ctx'].uri = heap'[last_ctx'].uri THEN heap[last_ctx']
    ELSE NewCtx(heap'[last_ctx'].uri, heap'[last_ctx'].conf, heap'[last_ctx'].env)

\* C17. Diagnostics are recomputed from scratch: after every step that
\* runs refresh_ctx on a session, whatever came before it, the session's
\* three buckets hold what the pass yields on the same session with all
\* three buckets empty: nothing of an earlier pass is left in them.
C17_DiagsFromScratch ==
    [][Refreshed =>
          \E oc \in ParseOutcomes : \E lc \in SessionLoadOutcomes :
              Buckets(heap'[last_ctx']) =
                  Buckets(refresh_ctx(Emptied(BeforeRefresh), oc, lc,
                                      Avail(docs, disk)).s)]_vars

\* a session whose first parse failed, which left an Error in a bucket,
\* and whose second parse built a tree: its buckets are empty
C17_Witness ==
    \E o \in Registered :
        /\ heap[o].version = 2
        /\ heap[o].prev = 0
        /\ heap[o].kconfig.st = "ok"
        /\ last.nparse = 1
        /\ last.pubs # <<>>
        /\ Buckets(heap[o]) = Buckets(Emptied(heap[o]))

\* the Errors that the except clauses of load_config have put in a
\* command-level bucket
LoadFailures(diags) == Len(SelectSeq(diags, LAMBDA x : x = "load_failed"))

\* load_config fails on session s: there is no evaluation object, a conf
\* file cannot be read, or the engine or a lint check raises
LoadFails(s, lc) ==
    \/ s.kconfig.st = "none"
    \/ \E i \in 1..Len(s.conf) : s.conf[i] \notin Avail(docs, disk)
    \/ lc \in {"raise", "lint_raise"}

\* C18. Failure containment in load_config: on every session the server
\* holds, parsed or not, and whatever the engine and lint do, a load_config
\* that fails returns with exactly one Error more in the command-level
\* bucket and the evaluation-level bucket as it was, and one that does not
\* fail adds no such Error; an exception that ends a handler during a
\* refresh is the one of parse() in initialize_env, raised before
\* load_config is called, and a bucket that a refresh has filled holds at
\* most one such Error.
C18_LoadFailureContained ==
    /\ \A o \in Registered : \A lc \in LoadOutcomes :
          LET s == heap[o]
              r == load_config(s, lc, Avail(docs, disk))
          IN  /\ LoadFails(s, lc) =>
                    /\ r.cmd_diags = Append(s.cmd_diags, "load_failed")
                    /\ r.kconfig_diags = s.kconfig_diags
              /\ ~LoadFails(s, lc) =>
                    LoadFailures(r.cmd_diags) = LoadFailures(s.cmd_diags)
    /\ \A o \in Registered : LoadFailures(heap[o].cmd_diags) <= 1
    /\ (pc = "crashed" /\ last.nparse = 1) =>
          /\ ~initialize_env(heap[last_ctx])
          /\ heap[last_ctx].cmd_diags = <<>>

\* a refresh has ended whose load_config failed after a parse that built a
\* tree: the command-level bucket holds its one Error, the request was
\* handled and the server goes on
C18_Witness ==
    /\ pc = "loop"
    /\ last.rsp # "crash"
    /\ last.pubs # <<>>
    /\ \E o \in Registered :
          /\ heap[o].kconfig.st = "ok"
          /\ heap[o].cmd_diags = <<"load_failed">>

\* C19. load_config requires a prior successful parse: after a step that
\* ran refresh_ctx to its end on a session that is then not valid (its
\* parse failed or built nothing that makes it valid), load_config has
\* applied no conf file and run no lint check: no conf file of the session
\* holds a finding.
C19_NoLoadUnlessValid ==
    [][(last'.pubs # <<>> /\ ~Valid(heap'[last_ctx'])) =>
          \A i \in 1..Len(heap'[last_ctx'].conf) : heap'[last_ctx'].fdiags[i] = <<>>]_vars

\* the Errors of parse() in the buckets of a session
ParseErrors(s) ==
    Len(SelectSeq(s.cmd_diags, LAMBDA x : x \in {"parse_error", "kconfig_failed"}))
    + Len(s.kconfig_diags)

C30_ChangeRelintsOwner ==
    [][\A f \in Resources :
          ( /\ \E o \in Registered : Claims(o, f)
            /\ handle_change(f, RouterEnv)
            /\ pc' = "loop" ) =>
              \E i \in 1..Len(last'.pubs) : last'.pubs[i][1] = f]_vars

(* Claims: text buffers *)

\* a position inside the buffer: on a line of it, at most at the line's end
InRange(ls, p) == p.line < Len(ls) /\ p.character <= Len(ls[p.line + 1])

\* C22. Offset/Position round trip: for any buffer content and any position
\* p on a line of the buffer with 0 <= p.character <= the line's length,
\* pos(offset(p)) = p, also at column 0 of a line other than the first.
C22_OffsetPosRoundTrip ==
    (docOp.op = "locate" /\ InRange(doc, docOp.p)) => docOp.back = docOp.p

\* the text with t in the place of the characters from offset a to offset b
Splice(full, a, b, t) ==
    [i \in 1..(Min(a, Len(full)) + Len(t)) |->
        IF i <= Min(a, Len(full)) THEN full[i] ELSE t[i - Min(a, Len(full))]]
    \o [i \in 1..(IF b < Len(full) THEN Len(full) - b ELSE 0) |-> full[b + i]]

\* C23. Incremental replace: on a buffer that is not empty, replace(text,
\* range) leaves as line array the lines of the flattened text with text
\* spliced in between offset(range.start) and offset(range.end); after any
\* sequence of didOpen and didChange the line array is the lines of the
\* full text computed last.
C23_ReplaceIsSplice ==
    /\ \A t \in Texts, s \in Positions, e \in Positions :
          Len(doc) > 0 =>
              replace(doc, t, TRUE, Range(s, e))
                  = splitlines(Splice(text(doc), offset(doc, s), offset(doc, e), t))
    /\ doc = splitlines(docOp.full)

\* a change with a range has kept part of a buffer of two lines or more
C23_Witness ==
    /\ docOp.op = "change"
    /\ docOp.ranged
    /\ Len(docOp.full) > DocMaxText
    /\ Len(doc) >= 2

(* Claims: the document store *)

\* C24. Document store lookups: get(uri, create=False) returns the buffer
\* the store holds for the URI if there is one and nothing if not, and
\* leaves the set of buffers as it was; get(uri, create=True) for a
\* resource that does not exist returns nothing, does not raise and adds
\* no entry. Every buffer of the store is of a file that exists or that a
\* didOpen brought.
C24_LookupNeverFabricates ==
    /\ \A uri \in Resources \cup {KconfigFileUri} :
          LET n == documentStore_get(docs, disk, uri, FALSE)
              c == documentStore_get(docs, disk, uri, TRUE)
          IN  /\ n.doc = (uri \in docs)
              /\ n.docs = docs
              /\ ~n.exc
              /\ (uri \notin docs /\ uri \notin disk) =>
                    (~c.doc /\ c.docs = docs /\ ~c.exc)
    /\ docs \subseteq disk \cup ConfUris

\* the router has asked every session about a resource that none owns, one
\* of them with an override file that does not exist: the store has the
\* buffers of the files that exist and none for the one that does not
C24_Witness ==
    /\ pc = "loop"
    /\ last.via = "none"
    /\ last.uri = OtherUri
    /\ OtherUri \notin docs
    /\ \E o \in Registered :
          /\ \E i \in 1..Len(heap[o].conf) : heap[o].conf[i] \notin docs \cup disk
          /\ \E i \in 1..Len(heap[o].conf) : heap[o].conf[i] \in docs

(* Claims: completion *)

\* what is before the cursor on the line of the last completion, without
\* leading blanks
Typed == lstrip(Slice(line(doc, docOp.p.line), 0, docOp.p.character))

\* the text without 'CONFIG_' in front, if it has it in front
Stripped(w) ==
    IF startswith(w, CONFIG_) THEN SubSeq(w, Len(CONFIG_) + 1, Len(w)) ELSE w

\* the text without the longest start of 'CONFIG_' it begins with
Unshared(w) ==
    LET k == CHOOSE k \in 0..Len(CONFIG_) :
                 /\ k <= Len(w)
                 /\ SubSeq(w, 1, k) = SubSeq(CONFIG_, 1, k)
                 /\ \A m \in (k + 1)..Len(CONFIG_) :
                       m > Len(w) \/ SubSeq(w, 1, m) # SubSeq(CONFIG_, 1, m)
    IN  SubSeq(w, k + 1, Len(w))

\* C25 (as claimed). Completion visibility policy: a completion whose prefix
\* before the cursor is empty or blank returns isIncomplete = true and only
\* visible symbols; with a prefix that is not, such as CONFIG_B, it returns
\* isIncomplete = false and every symbol whose name starts with the prefix
\* (after CONFIG_ is stripped from it), visible or not.
C25_CompletionByPrefix ==
    docOp.op = "completion" =>
        /\ Typed = <<>> =>
              /\ docOp.rsp.isIncomplete
              /\ docOp.rsp.items \subseteq docOp.visible
        /\ Typed # <<>> =>
              /\ ~docOp.rsp.isIncomplete
              /\ \A sym \in CompletionSyms :
                    startswith(sym, Stripped(Typed)) => sym \in docOp.rsp.items

\* C25. Completion visibility policy: a completion whose prefix before the
\* cursor is empty or blank returns isIncomplete = true and exactly the
\* visible symbols; with a prefix that is not, it returns isIncomplete =
\* false and exactly the symbols, visible or not, whose name starts with
\* what is left of the prefix once the longest start of CONFIG_ that the
\* prefix begins with is taken off: CONFIG_B and B give the names that start
\* with B, CA gives those that start with A.
C25_CompletionBySharedPrefix ==
    docOp.op = "completion" =>
        /\ Typed = <<>> =>
              /\ docOp.rsp.isIncomplete
              /\ docOp.rsp.items = docOp.visible \cap CompletionSyms
        /\ Typed # <<>> =>
              /\ ~docOp.rsp.isIncomplete
              /\ docOp.rsp.items
                    = {sym \in CompletionSyms : startswith(sym, Unshared(Typed))}

\* a completion after CONFIG_B has given a symbol that is not visible
C25_Witness ==
    /\ docOp.op = "completion"
    /\ Typed = CONFIG_ \o <<"B">>
    /\ ~docOp.rsp.isIncomplete
    /\ <<"B", "A", "R">> \in docOp.rsp.items \ docOp.visible

(* Claims: publications *)

\* the URIs for which a session's buckets hold diagnostics
WithDiags(s) ==
    {s.conf[i] : i \in {j \in 1..Len(s.conf) : s.fdiags[j] # <<>>}}
    \cup (IF s.cmd_diags # <<>> THEN {CommandLineUri} ELSE {})
    \cup {s.kconfig_diags[i][1] : i \in 1..Len(s.kconfig_diags)}

\* C38. Published diagnostics are superseded: if a refresh of a session
\* published diagnostics for a URI (an override file, the command-line
\* pseudo-file or a Kconfig file that failed to parse), the next refresh of
\* that session in which the URI has none publishes an empty list for it.
C38_PublishedSuperseded ==
    [][(Refreshed /\ pc' = "loop" /\ last_ctx' = last_ctx
        /\ heap'[last_ctx'].uri = heap[last_ctx'].uri
        /\ heap'[last_ctx'].version >= heap[last_ctx'].version) =>
          \A uri \in WithDiags(heap[last_ctx']) \ WithDiags(heap'[last_ctx']) :
              \E i \in 1..Len(last'.pubs) : last'.pubs[i] = <<uri, <<>>>>]_vars

(* Claims: removed sessions *)

\* C36. The router never returns a session that is not registered: whatever
\* addBuild, removeBuild, setMainBuild and routed requests came before, the
\* remembered last-used session and the session best_ctx returns for any
\* resource are in the registry; a session removed by kconfig/removeBuild,
\* or replaced by a second kconfig/addBuild with its URI, is not used again.
C36_RouterReturnsRegistered ==
    /\ last_ctx \in Registered \cup {NoObj}
    /\ \A f \in Resources :
          best_ctx(heap, ctx, main_uri, last_ctx, f, Avail(docs, disk)).ret
              \in Registered \cup {NoObj}

\* the states in which a session under this URI can have been when it was
\* removed or replaced: parsed v times, the last time with a tree
RemovedSessions(u) ==
    {[NewCtx(u, conf, "full") EXCEPT !.version = v,
                                     !.kconfig = KconfigParse(v, [res |-> "ok", tree |-> t])] :
        conf \in ConfLists, v \in 1..RouterMaxVersion, t \in TreeIds}

\* C37. A token never resolves to a node of an unrelated evaluation: a token
\* that a session gave which was then removed and registered again under
\* the same URI (or replaced by a second addBuild) does not resolve in the
\* new session, whatever version the new session has reached.
C37_RemovedTokenUnresolved ==
    \A o \in Registered : \A old \in RemovedSessions(heap[o].uri) :
        \A id \in IssuedNow(old) : find_node(heap[o], id).kind # "node"

(* Claims: the process environment *)

\* C34. Sessions never share evaluation state through the environment: the
\* environment a session is parsed under is determined by the session's own
\* env map and the environment the process started with alone, so no parse
\* of another session before it changes a variable that its evaluation
\* reads.
C34_EnvOwnMapAndStart ==
    envOp.op = "parse" =>
        \A k \in EnvKeys :
            envOp.seen[k] = IF envOp.env[k] # Unset THEN envOp.env[k]
                            ELSE StartEnviron[k]

(* Claims: ranges *)

\* the earlier and the later of two positions
MinPos(p, q) == IF before(q, p) THEN q ELSE p

MaxPos(p, q) == IF before(p, q) THEN q ELSE p

\* C33. The union of two ranges runs from the earlier of the two starts to
\* the later of the two ends, is the same in either order of the arguments,
\* and contains both arguments.
C33_UnionIsHull ==
    rangeOp.op = "union" =>
        /\ rangeOp.u = Range(MinPos(rangeOp.a.start, rangeOp.b.start),
                             MaxPos(rangeOp.a.end, rangeOp.b.end))
        /\ rangeOp.u = union(rangeOp.b, rangeOp.a)
        /\ contains(rangeOp.u, rangeOp.a)
        /\ contains(rangeOp.u, rangeOp.b)

(* Claims: the document store's buffers *)

\* the store can supply a buffer for the resource of the last message
Supplied == store_get(storeOp.before, storeOp.uri, TRUE).doc # NoBuffer

\* C31 as stated. After a didChange on a buffer the store can supply, with
\* any number of content changes, the buffer has the version of the
\* notification and its modified flag is set; a didChange for a resource
\* the store cannot supply changes no buffer.
C31_ChangeSetsVersionAndFlag ==
    storeOp.op = "change" =>
        IF Supplied
        THEN /\ store[storeOp.uri].version = storeOp.version
             /\ store[storeOp.uri].modified
        ELSE store = storeOp.before

\* C31. After a didChange on a buffer the store can supply the buffer has
\* the version of the notification; its modified flag is set if the
\* notification carried one or more content changes, and is what it was if
\* it carried none.  A didChange for a resource the store cannot supply
\* changes no buffer.
C31_ChangeSetsVersionEditSetsFlag ==
    storeOp.op = "change" =>
        IF Supplied
        THEN /\ store[storeOp.uri].version = storeOp.version
             /\ store[storeOp.uri].modified =
                    (storeOp.n >= 1 \/
                     store_get(storeOp.before, storeOp.uri, TRUE).doc.modified)
        ELSE store = storeOp.before

\* two content changes on a buffer that was opened unmodified
C31_Witness ==
    /\ storeOp.op = "change"
    /\ storeOp.n = 2
    /\ storeOp.before[storeOp.uri] # NoBuffer
    /\ ~storeOp.before[storeOp.uri].modified
    /\ store[storeOp.uri].modified

\* C32. Editor-backed buffers are destroyed on close: after a didClose for
\* a resource that was opened with didOpen the store holds no buffer for
\* it, and a lookup after the close returns what is read from the file, or
\* nothing, never the content the editor had.
C32_CloseDestroysBuffer ==
    /\ []((storeOp.op = "close" /\ storeOp.before[storeOp.uri].languageId # None)
             => store[storeOp.uri] = NoBuffer)
    /\ [][(storeOp.op = "close" /\ storeOp'.op = "get" /\ storeOp'.uri = storeOp.uri)
              => storeOp'.doc \in {NoBuffer, _from_disk(store, storeOp.uri).doc}]_vars

(* Claims: the dispatch loop *)

\* the responses on the wire that carry this id
Responses(i) == {k \in 1..Len(wire) : wire[k].type = "response" /\ wire[k].id = i}

\* C35. One message at a time: at most one message is being handled; the
\* loop reads a message only when no handler is in progress and the request
\* read before has been answered; and every notification a handler sends
\* for a request is on the wire before the response to that request.
C35_OneMessageAtATime ==
    /\ [](Cardinality(active) <= 1)
    /\ [](\A i, j \in 1..Len(wire) :
              (wire[i].type = "response" /\ wire[j].type = "notification"
               /\ wire[j].cause = wire[i].id) => j < i)
    /\ [][Len(readLog') > Len(readLog) => (active = {} /\ _req = NoReq)]_vars

\* a request was answered after its handler had sent two notifications, and
\* the next message has been read
C35_Witness ==
    /\ Len(readLog) >= 2
    /\ \E i, j, k \in 1..Len(wire) :
           /\ i < j /\ j < k
           /\ wire[i].type = "notification" /\ wire[j].type = "notification"
           /\ wire[k].type = "response"
           /\ wire[i].cause = wire[k].id /\ wire[j].cause = wire[k].id

\* C39. Request/response pairing: whenever the server is not in the middle
\* of a message, every request it has read, with a registered method or
\* with an unknown one, has exactly one response with its id on the wire
\* (with code METHOD_NOT_FOUND for an unknown method), and no response
\* is on the wire for anything that was not a request.
C39_RequestsAnsweredOnce ==
    rpcPc # "handling" =>
        /\ \A i \in 1..Len(readLog) :
               IF readLog[i].kind = "request"
               THEN /\ Cardinality(Responses(i)) = 1
                    /\ readLog[i].method = "unknown" =>
                           \A k \in Responses(i) : wire[k].code = METHOD_NOT_FOUND
               ELSE Responses(i) = {}
        /\ \A k \in 1..Len(wire) :
               wire[k].type = "response" => wire[k].id \in 1..Len(readLog)

\* the shutdown requests whose handler has returned
ShutdownHandled ==
    {i \in 1..Len(readLog) :
        /\ readLog[i].kind = "request" /\ readLog[i].method = "shutdown"
        /\ readLog[i].params
        /\ \A a \in active : a.serial # i}

\* C40. Shutdown ends the dispatch loop: once a shutdown request has been
\* handled its response is on the wire, the running flag is false, and no
\* further message is read or handled.
C40_ShutdownStopsLoop ==
    /\ [](\A i \in ShutdownHandled :
              /\ Cardinality(Responses(i)) = 1
              /\ ~running
              /\ rpcPc \in {"loop", "stopped"})
    /\ [][ShutdownHandled # {} => (readLog' = readLog /\ active' = {})]_vars

\* the loop has ended after a shutdown request that came second
C40_Witness ==
    /\ rpcPc = "stopped"
    /\ 2 \in ShutdownHandled
    /\ Responses(2) # {}

====
